---- MODULE Spec2Model ----
(***************************************************************************)
(* Model of the MetaFs direct-upload core of SimpleTreeTools               *)
(* (src/src/lib/metafs.ts): fee estimation, UTXO selection, construction   *)
(* and signing of the base transaction, and the direct upload request.     *)
(*                                                                         *)
(* Every exported function is an operator computed as the code computes    *)
(* it.  A function that awaits an external party (the wallet, the signer,  *)
(* the finalizer endpoint) is run in two steps: the call up to the await,  *)
(* and the continuation once the external party has answered.  Errors are  *)
(* the messages of the Error objects the code throws; amounts are integer  *)
(* satoshis and fee rates integer satoshis per byte.                       *)
(***************************************************************************)
EXTENDS Integers, Sequences, FiniteSets, TLC

\* ------------------------------------------------------------------ bounds
MaxUtxos == 3
MaxFileSize == 3
MaxFeeRate == 3
MaxOutputs == 3

\* --------------------------------------------------------- JS value helpers
\* A JavaScript value that may be undefined / null, or a number.
Undefined == [kind |-> "undefined"]
Null == [kind |-> "null"]
Num(n) == [kind |-> "number", n |-> n]

\* Truthiness of a number-or-undefined value: undefined, null and 0 are falsy.
Truthy(v) == v.kind = "number" /\ v.n # 0

\* A settled promise.
Fulfilled(v) == [status |-> "fulfilled", value |-> v]
Rejected(m) == [status |-> "rejected", message |-> m]

\* A promise that has not settled (or was never created).
Pending == [status |-> "pending"]

Digit == <<"0", "1", "2", "3", "4", "5", "6", "7", "8", "9">>

\* Number.prototype.toString / template-literal formatting of a natural number.
RECURSIVE NumToStr(_)
NumToStr(n) ==
    IF n < 10 THEN Digit[n + 1]
    ELSE NumToStr(n \div 10) \o Digit[(n % 10) + 1]

\* Math.ceil(n * 1.2) for a natural number n: 6n/5 rounded up (the double
\* nearest to 1.2 lies below 1.2, so the product never exceeds an integer it
\* should equal, and the rounding error is far below the fractions 1/5).
CeilMargin(n) == (n * 6 + 4) \div 5

\* ------------------------------------------------------------ configuration
\* userStore.last.address: the uploader's own address.
OwnAddress == "addrSelf"

\* mvc.Script.buildPublicKeyHashOut(address).toHex()
buildPublicKeyHashOut(address) == "76a914" \o address \o "88ac"

\* ------------------------------------------------------- estimateUploadFee
baseSize == 200
inputSize == 150
outputSize == 34
opReturnOverhead == 50
path == "/file"
fileHost == ""

finalPath == IF fileHost # "" THEN fileHost \o ":" \o path ELSE path

metadataSize == 6 + 10 + Len(finalPath) + 10 + 10 + 50

estimatedTxSize(fileSize) ==
    baseSize + inputSize + outputSize * 2 + (opReturnOverhead + metadataSize + fileSize)

\* chainStore.mvcFeeRate() || 1
FeeRateOrOne(mvcFeeRate) == IF Truthy(mvcFeeRate) THEN mvcFeeRate.n ELSE 1

\* The fee rate is an integer number of satoshis per byte, so the product
\* estimatedTxSize * feeRate is an integer and Math.ceil leaves it alone.
baseFee(fileSize, mvcFeeRate) == estimatedTxSize(fileSize) * FeeRateOrOne(mvcFeeRate)

estimateUploadFee(file, mvcFeeRate) ==
    Fulfilled(CeilMargin(baseFee(file.size, mvcFeeRate)))

\* ----------------------------------------------------------- getWalletUTXOs
filler == 600

AboveFillerOrEqual(utxo) == utxo.value >= filler

AboveFiller(utxo) == utxo.value > filler

InsertDescUnstable(sorted, utxo) ==
    LET n == Cardinality({i \in 1..Len(sorted) : sorted[i].value > utxo.value})
    IN  SubSeq(sorted, 1, n) \o <<utxo>> \o SubSeq(sorted, n + 1, Len(sorted))

\* Array.prototype.sort((a, b) => b.value - a.value): stable, descending.
InsertDesc(sorted, utxo) ==
    LET n == Cardinality({i \in 1..Len(sorted) : sorted[i].value >= utxo.value})
    IN  SubSeq(sorted, 1, n) \o <<utxo>> \o SubSeq(sorted, n + 1, Len(sorted))

RECURSIVE SortDesc(_)
SortDesc(s) ==
    IF s = <<>> THEN <<>>
    ELSE InsertDesc(SortDesc(SubSeq(s, 1, Len(s) - 1)), s[Len(s)])

ToUTXO(utxo) ==
    [txId |-> utxo.txid, outputIndex |-> utxo.outIndex,
     script |-> buildPublicKeyHashOut(utxo.address), satoshis |-> utxo.value]

ReachedOffByOne(totalAmount, requiredAmount) == totalAmount >= requiredAmount

\* line 222 / negation of line 227: the bound with one satoshi for the receiver.
Reached(totalAmount, requiredAmount) == totalAmount >= requiredAmount + 1

\* The for-of loop of lines 210-225, from position i of sortedUtxos.
RECURSIVE SelectLoop(_, _, _, _, _)
SelectLoop(sortedUtxos, i, selectedUtxos, totalAmount, requiredAmount) ==
    IF i > Len(sortedUtxos)
    THEN [utxos |-> selectedUtxos, totalAmount |-> totalAmount]
    ELSE LET utxo == sortedUtxos[i]
             sel == Append(selectedUtxos, ToUTXO(utxo))
             tot == totalAmount + utxo.value
         IN  IF Reached(tot, requiredAmount)
             THEN [utxos |-> sel, totalAmount |-> tot]
             ELSE SelectLoop(sortedUtxos, i + 1, sel, tot, requiredAmount)

GetUTXOsFailedNoMessage(message) == Rejected("Failed to get UTXOs")

\* catch (error) { throw new Error(`Failed to get UTXOs: ${err.message}`) }
GetUTXOsFailed(message) == Rejected("Failed to get UTXOs: " \o message)

\* The continuation of getWalletUTXOs after `await window.metaidwallet.getUtxos()`
\* has settled with walletResult.
getWalletUTXOs(walletResult, requiredAmount) ==
    IF walletResult.status = "rejected"
    THEN GetUTXOsFailed(walletResult.message)
    ELSE LET utxos == walletResult.value IN
         IF utxos.kind # "array" \/ Len(utxos.items) = 0
         THEN GetUTXOsFailed("No available UTXOs in wallet")
         ELSE LET fillerUtxos == SelectSeq(utxos.items, AboveFiller) IN
              IF Len(fillerUtxos) = 0
              THEN GetUTXOsFailed("No UTXOs larger than 600 satoshis available in wallet")
              ELSE LET sortedUtxos == SortDesc(fillerUtxos)
                       picked == SelectLoop(sortedUtxos, 1, <<>>, 0, requiredAmount)
                   IN  IF ~Reached(picked.totalAmount, requiredAmount)
                       THEN GetUTXOsFailed(
                                "Insufficient balance! Need "
                                \o NumToStr(requiredAmount + 1)
                                \o " satoshis, but only have "
                                \o NumToStr(picked.totalAmount) \o " satoshis")
                       ELSE Fulfilled(picked)

\* ------------------------------------------------------- buildAndSignBaseTx
RECURSIVE BitOr(_, _)
BitOr(a, b) ==
    IF a = 0 THEN b
    ELSE IF b = 0 THEN a
    ELSE (IF a % 2 = 1 \/ b % 2 = 1 THEN 1 ELSE 0) + 2 * BitOr(a \div 2, b \div 2)

HexDigit == <<"0", "1", "2", "3", "4", "5", "6", "7", "8", "9", "a", "b", "c", "d", "e", "f">>

\* One byte as two hexadecimal digits.
ByteHex(b) == HexDigit[(b \div 16) + 1] \o HexDigit[(b % 16) + 1]

SighashAllForkId == BitOr(1, 64)

\* 0x3 | 0x80 | 0x40: SIGHASH_SINGLE | ANYONE_CAN_PAY, with the fork id.
sigtype == BitOr(BitOr(3, 128), 64)

NotExactlyOneOnlyEmpty(utxos) == utxos.kind # "array" \/ Len(utxos.items) = 0

\* !utxoData.utxos || utxoData.utxos.length !== 1
NotExactlyOne(utxos) == utxos.kind # "array" \/ Len(utxos.items) # 1

BuildSignFailedNoMessage(message) == Rejected("Failed to build/sign MVC transaction")

\* catch (error) { throw new Error(`Failed to build/sign MVC transaction: ${err.message}`) }
BuildSignFailed(message) == Rejected("Failed to build/sign MVC transaction: " \o message)

\* new mvc.Transaction(), version 10, tx.from(utxo), tx.to(address, 1)
BuildBaseTx(utxo) ==
    [version |-> 10,
     inputs |-> <<[prevTxId |-> utxo.txId, outputIndex |-> utxo.outputIndex,
                   output |-> [script |-> utxo.script, satoshis |-> utxo.satoshis],
                   script |-> ""]>>,
     outputs |-> <<[script |-> buildPublicKeyHashOut(OwnAddress), satoshis |-> 1]>>]

RECURSIVE JoinInputs(_)
JoinInputs(inputs) ==
    IF inputs = <<>> THEN ""
    ELSE "[" \o Head(inputs).prevTxId \o ":" \o NumToStr(Head(inputs).outputIndex)
         \o ":" \o Head(inputs).script \o "]" \o JoinInputs(Tail(inputs))

RECURSIVE JoinOutputs(_)
JoinOutputs(outputs) ==
    IF outputs = <<>> THEN ""
    ELSE "[" \o NumToStr(Head(outputs).satoshis) \o ":" \o Head(outputs).script \o "]"
         \o JoinOutputs(Tail(outputs))

\* tx.toString(): the serialized transaction (version, the inputs with their
\* unlocking scripts, the outputs); the spent outputs are not part of it.
TxHex(tx) ==
    NumToStr(tx.version) \o NumToStr(Len(tx.inputs)) \o JoinInputs(tx.inputs)
    \o NumToStr(Len(tx.outputs)) \o JoinOutputs(tx.outputs)

\* The argument of window.metaidwallet.signTransaction (lines 367-376).
SignRequest(tx, utxo) ==
    [call |-> "signTransaction",
     txHex |-> TxHex(tx), address |-> OwnAddress, inputIndex |-> 0,
     scriptHex |-> utxo.script, satoshis |-> utxo.satoshis, sigtype |-> sigtype]

\* Signature.fromTxFormat(Buffer.from(sig, 'hex')).toDER(): the signature
\* without its last byte, the hash type.
SigToDER(sig) == SubSeq(sig, 1, Len(sig) - 2)

\* Script.buildPublicKeyHashIn(publicKey, der, sigtype): <der + sigtype> <pubkey>
buildPublicKeyHashIn(publicKey, der, type) ==
    "<" \o der \o ByteHex(type) \o "><" \o publicKey \o ">"

\* buildAndSignBaseTx up to `await window.metaidwallet.signTransaction(...)`:
\* either it has thrown already (next = "done") or the signer was called.
buildAndSignBaseTxStart(utxoData, signerIsFunction) ==
    IF NotExactlyOne(utxoData.utxos)
    THEN [next |-> "done", calls |-> <<>>, local |-> [kind |-> "none"],
          ret |-> BuildSignFailed(
                      "SIGHASH_SINGLE requires exactly 1 UTXO, got "
                      \o NumToStr(IF utxoData.utxos.kind = "array"
                                  THEN Len(utxoData.utxos.items) ELSE 0))]
    ELSE LET utxo == utxoData.utxos.items[1]
             tx == BuildBaseTx(utxo)
         IN  IF ~signerIsFunction
             THEN [next |-> "done", calls |-> <<>>, local |-> [kind |-> "none"],
                   ret |-> BuildSignFailed(
                               "window.metaidwallet.signTransaction is not a function")]
             ELSE [next |-> "sign", calls |-> <<SignRequest(tx, utxo)>>,
                   local |-> [kind |-> "tx", tx |-> tx, utxo |-> utxo],
                   ret |-> Pending]

SetInputScriptSkipped(tx, unlockingScript) == tx

\* tx.inputs[0].setScript(unlockingScript)
SetInputScript(tx, unlockingScript) ==
    [tx EXCEPT !.inputs[1].script = unlockingScript]

\* The continuation of buildAndSignBaseTx once the signer has settled.
buildAndSignBaseTxFinish(tx, signResult) ==
    IF signResult.status = "rejected"
    THEN [tx |-> tx, ret |-> BuildSignFailed(signResult.message)]
    ELSE IF signResult.value.kind # "object"
    THEN [tx |-> tx, ret |-> BuildSignFailed("Failed to get signature")]
    ELSE LET sig == signResult.value.signature.sig
             publicKey == signResult.value.signature.publicKey
             unlockingScript == buildPublicKeyHashIn(publicKey, SigToDER(sig), sigtype)
             signed == SetInputScript(tx, unlockingScript)
         IN  [tx |-> signed, ret |-> Fulfilled(TxHex(signed))]

\* ---------------------------------------------------------------- mergeUTXOs
\* output.script.toAddress(network): the address of a pay-to-key-hash script,
\* nothing for any other script (toAddress returns false or throws).
IsPublicKeyHashOut(script) ==
    /\ Len(script) > 10
    /\ SubSeq(script, 1, 6) = "76a914"
    /\ SubSeq(script, Len(script) - 3, Len(script)) = "88ac"

ScriptToAddress(script) ==
    IF IsPublicKeyHashOut(script)
    THEN [kind |-> "string", s |-> SubSeq(script, 7, Len(script) - 4)]
    ELSE [kind |-> "false"]

PaysAnyAddress(output) == ScriptToAddress(output.script).kind = "string"

\* addr && addr.toString() === userStore.last.address
PaysOwnAddress(output) ==
    LET addr == ScriptToAddress(output.script)
    IN  addr.kind = "string" /\ addr.s = OwnAddress

\* The loop of lines 297-309 from index i (0-based): the index of the first
\* output that pays the own address, -1 when there is none.
RECURSIVE FindMergedOutput(_, _)
FindMergedOutput(outputs, i) ==
    IF i >= Len(outputs) THEN -1
    ELSE IF PaysOwnAddress(outputs[i + 1]) THEN i
    ELSE FindMergedOutput(outputs, i + 1)

\* payedTxComposer.getTxId(): the hash of the serialized transaction.
TxIdOf(txHex) == "id" \o txHex

\* new mvc.Transaction(hex): what the serialization keeps of a transaction
\* (the outputs the inputs spend are not in it).
ParseTx(tx) ==
    [version |-> tx.version,
     inputs |-> [i \in 1..Len(tx.inputs) |->
                    [prevTxId |-> tx.inputs[i].prevTxId,
                     outputIndex |-> tx.inputs[i].outputIndex,
                     script |-> tx.inputs[i].script]],
     outputs |-> tx.outputs]

MergeFailedBare(message) == Rejected(message)

MergeFailed(message) == Rejected("Failed to merge UTXOs: " \o message)

BuildMergeTxWithBuffer(estimatedFee) ==
    [version |-> 10, inputs |-> <<>>,
     outputs |-> <<[script |-> buildPublicKeyHashOut(OwnAddress),
                    satoshis |-> estimatedFee + 1]>>]

\* new mvc.Transaction(), version 10, mergeTx.to(address, estimatedFee)
BuildMergeTx(estimatedFee) ==
    [version |-> 10, inputs |-> <<>>,
     outputs |-> <<[script |-> buildPublicKeyHashOut(OwnAddress), satoshis |-> estimatedFee]>>]

\* The argument of window.metaidwallet.pay (lines 264-277).
PayRequest(estimatedFee, mvcFeeRate) ==
    [call |-> "pay",
     transactions |-> <<[txComposer |-> BuildMergeTx(estimatedFee),
                         message |-> "Merge UTXOs"]>>,
     feeb |-> FeeRateOrOne(mvcFeeRate)]

\* mergeUTXOs up to `await window.metaidwallet.pay(payParams)`.
mergeUTXOsStart(utxoData, estimatedFee, payIsFunction, mvcFeeRate) ==
    IF ~payIsFunction
    THEN [next |-> "done", calls |-> <<>>,
          ret |-> MergeFailed("Wallet does not support pay method")]
    ELSE [next |-> "pay", calls |-> <<PayRequest(estimatedFee, mvcFeeRate)>>,
          ret |-> Pending]

FirstOutput(outputs, found) == 0

\* lines 311-315: the index found, or the first output when none was found.
MergedOutputIndex(outputs, found) == IF found = -1 THEN 0 ELSE found

\* The continuation of mergeUTXOs once pay has settled.
mergeUTXOsFinish(payResult) ==
    IF payResult.status = "rejected"
    THEN MergeFailed(payResult.message)
    ELSE IF payResult.value.kind # "object"
    THEN MergeFailed("Cannot read properties of undefined (reading 'payedTransactions')")
    ELSE IF Len(payResult.value.payedTransactions) = 0
    THEN MergeFailed("Cannot read properties of undefined (reading 'txHex')")
    ELSE LET payedTx == payResult.value.payedTransactions[1]
             signedMergeTxHex == TxHex(payedTx)
             mergeTxId == TxIdOf(signedMergeTxHex)
             parsedMergeTx == ParseTx(payedTx)
             found == FindMergedOutput(parsedMergeTx.outputs, 0)
             mergedOutputIndex == MergedOutputIndex(parsedMergeTx.outputs, found)
         IN  IF Len(parsedMergeTx.outputs) = 0
             THEN MergeFailed("Cannot read properties of undefined (reading 'satoshis')")
             ELSE LET output == parsedMergeTx.outputs[mergedOutputIndex + 1]
                      newUtxo == [txId |-> mergeTxId, outputIndex |-> mergedOutputIndex,
                                  script |-> output.script, satoshis |-> output.satoshis]
                  IN  Fulfilled([utxos |-> <<newUtxo>>, totalAmount |-> newUtxo.satoshis,
                                 mergeTxId |-> mergeTxId,
                                 mergeTxHex |-> signedMergeTxHex])

\* -------------------------------------------------------------- directUpload
\* String.prototype.includes
Includes(s, sub) ==
    \E i \in 1..(Len(s) - Len(sub) + 1) : SubSeq(s, i, i + Len(sub) - 1) = sub

\* file.type || 'application/octet-stream', with ';binary' appended if absent.
ContentType(file) ==
    LET contentType == IF file.type # "" THEN file.type ELSE "application/octet-stream"
    IN  IF ~Includes(contentType, ";binary") THEN contentType \o ";binary" ELSE contentType

\* userStore.last.metaid
OwnMetaId == "metaidSelf"

Field(name, value) == [name |-> name, value |-> value]

\* chainStore.mvcFeeRate().toString() || '1', for a fee rate that is a number.
FeeRateField(n) == IF NumToStr(n) # "" THEN NumToStr(n) ELSE "1"

\* The multipart form of lines 432-445.
FormData(file, preTxHex, totalInputAmount, mergeTxHex, feeRate) ==
    <<Field("file", file), Field("path", finalPath)>>
    \o (IF mergeTxHex # "" THEN <<Field("mergeTxHex", mergeTxHex)>> ELSE <<>>)
    \o <<Field("preTxHex", preTxHex),
         Field("operation", "create"),
         Field("contentType", ContentType(file)),
         Field("metaId", OwnMetaId),
         Field("address", OwnAddress),
         Field("changeAddress", OwnAddress),
         Field("feeRate", FeeRateField(feeRate)),
         Field("totalInputAmount", NumToStr(totalInputAmount))>>

DirectUploadFailed(message) == Rejected("DirectUpload failed: " \o message)

\* directUpload up to `await fetch(...)`: reading the fee rate throws when the
\* store has none (toString of undefined), before any request is sent.
directUploadStart(file, preTxHex, totalInputAmount, mergeTxHex, mvcFeeRate) ==
    IF mvcFeeRate.kind # "number"
    THEN [next |-> "done", calls |-> <<>>,
          ret |-> DirectUploadFailed(
                      "Cannot read properties of undefined (reading 'toString')")]
    ELSE [next |-> "fetch",
          calls |-> <<[call |-> "fetch", method |-> "POST",
                       url |-> "/api/v1/files/direct-upload",
                       body |-> FormData(file, preTxHex, totalInputAmount, mergeTxHex,
                                         mvcFeeRate.n)]>>,
          ret |-> Pending]

\* Response.ok: the status is in the range 200-299.
ResponseOk(response) == response.status >= 200 /\ response.status <= 299

NotOkIgnored(response) == FALSE

\* !response.ok
NotOk(response) == ~ResponseOk(response)

\* new Error(result.message).message: empty when the response has no message.
ErrorMessage(message) == IF message.kind = "string" THEN message.s ELSE ""

\* The continuation of directUpload once fetch has settled.
directUploadFinish(fetchResult) ==
    IF fetchResult.status = "rejected"
    THEN DirectUploadFailed(fetchResult.message)
    ELSE LET response == fetchResult.value IN
         IF NotOk(response)
         THEN DirectUploadFailed("HTTP Error: " \o NumToStr(response.status))
         ELSE IF response.body.kind # "json"
         THEN DirectUploadFailed("Unexpected end of JSON input")
         ELSE LET result == response.body.json IN
              IF result.code # 0
              THEN DirectUploadFailed(ErrorMessage(result.message))
              ELSE Fulfilled(result.data)

\* ------------------------------------------------------------ input domains
Amounts == {600, 650, 700, 800, 3000, 5000}
RequiredAmounts == {0, 649, 650, 1200, 1500, 2000, 2150}

AmountLists == UNION {[1..n -> Amounts] : n \in 0..MaxUtxos}

\* The wallet's answer to getUtxos for a list of amounts: every output has its
\* own transaction id, so that outputs of equal value stay distinguishable.
WalletUtxos(amounts) ==
    [i \in 1..Len(amounts) |->
        [txid |-> "tx" \o NumToStr(i), outIndex |-> i - 1,
         address |-> OwnAddress, value |-> amounts[i]]]

Array(items) == [kind |-> "array", items |-> items]

WalletResults ==
    {Fulfilled(Array(WalletUtxos(a))) : a \in AmountLists}
    \cup {Fulfilled(Null), Fulfilled(Undefined), Rejected("wallet locked")}

FileTypes == {"", "text/html", "application/zip;binary"}
FileSizes == (0..MaxFileSize) \cup {1000}
Files == [size : FileSizes, type : FileTypes]

FeeRateSource == {Num(r) : r \in 0..MaxFeeRate} \cup {Undefined}

RECURSIVE SumSatoshis(_)
SumSatoshis(utxos) ==
    IF utxos = <<>> THEN 0 ELSE Head(utxos).satoshis + SumSatoshis(Tail(utxos))

\* The UTXOData values handed to buildAndSignBaseTx: no list at all, or a list
\* of up to MaxUtxos outputs.
UtxoPool == {ToUTXO(WalletUtxos(<<700, 5000>>)[i]) : i \in 1..2}
UtxoLists == UNION {[1..n -> UtxoPool] : n \in 0..MaxUtxos}
UtxoDatas ==
    {[utxos |-> Array(l), totalAmount |-> SumSatoshis(l)] : l \in UtxoLists}
    \cup {[utxos |-> Undefined, totalAmount |-> 0]}

SignResultObject(sig) ==
    [kind |-> "object", signature |-> [sig |-> sig, publicKey |-> "02pubkey"]]

\* What the signer may answer: a signature (ending in the hash type it signed
\* with), nothing, or a refusal.
SignResults ==
    {Fulfilled(SignResultObject("3044aa" \o ByteHex(t))) : t \in {sigtype, SighashAllForkId}}
    \cup {Fulfilled(Null), Fulfilled(Undefined), Rejected("User rejected")}

Str(s) == [kind |-> "string", s |-> s]

\* The finalizer's answers: a transport failure, or a response with a status
\* and a body that is a DirectUploadResponse or not JSON at all.
UploadData == [txId |-> "txFinal", pinId |-> "txFinali0", status |-> "success"]
ResponseBodies ==
    {[kind |-> "json", json |-> [code |-> c, message |-> m, data |-> UploadData]] :
        c \in {0, 1}, m \in {Undefined, Str("insufficient fee")}}
    \cup {[kind |-> "text"]}
FetchResults ==
    {Fulfilled([status |-> st, body |-> b]) : st \in {200, 404, 500}, b \in ResponseBodies}
    \cup {Rejected("Failed to fetch")}

\* What directUpload is called with: a pre-signed transaction, the amount of
\* its input and the merge transaction, if any.
PreTxHexes == {TxHex(SetInputScript(BuildBaseTx(u), buildPublicKeyHashIn("02pubkey", "3044aa", sigtype))) : u \in UtxoPool}
MergeTxHexes == {"", "10mergetx"}
UploadFiles == {f \in Files : f.size \in {0, 1000}}

\* What mergeUTXOs is called with: a selection of several outputs and the fee.
MergeSelections ==
    {[utxos |-> l, totalAmount |-> SumSatoshis(l)] : l \in {u \in UtxoLists : Len(u) = 2}}
MergeFees == {671, 1500}

\* The outputs a transaction signed by the wallet may have: payments to the
\* own address (the declared amount, a change), a payment to another address
\* and an output without an address.
OtherAddress == "addrOther"
OpReturnScript == "006a046d657461"
MergeOutputs ==
    {[script |-> buildPublicKeyHashOut(OwnAddress), satoshis |-> a] : a \in MergeFees \cup {4028}}
    \cup {[script |-> buildPublicKeyHashOut(OtherAddress), satoshis |-> 671],
          [script |-> OpReturnScript, satoshis |-> 0]}
MergeInputs ==
    <<[prevTxId |-> "tx1", outputIndex |-> 0,
       output |-> [script |-> buildPublicKeyHashOut(OwnAddress), satoshis |-> 5000],
       script |-> "<3044cc41><02pubkey>"]>>
SignedMergeTxs ==
    {[version |-> 10, inputs |-> MergeInputs, outputs |-> o] :
        o \in UNION {[1..n -> MergeOutputs] : n \in 0..MaxOutputs}}

PayResultObject(txs) == [kind |-> "object", payedTransactions |-> txs]

\* What the wallet's pay may answer: a signed transaction, an answer without
\* one, or a refusal.
PayResults ==
    {Fulfilled(PayResultObject(<<tx>>)) : tx \in SignedMergeTxs}
    \cup {Fulfilled(PayResultObject(<<>>)), Fulfilled(Undefined), Rejected("User canceled")}

\* -------------------------------------------------------------------- state
VARIABLES
    pc,        \* "idle", "getUtxos", "pay", "sign", "fetch", "done": where the call stands
    fn,        \* the function that was called
    args,      \* its arguments (and the configuration it reads)
    ret,       \* the settled promise it returned, once pc = "done"
    extCalls,  \* the external calls it made, in order
    local,     \* its local variables that live across the await
    prevEst,   \* the estimateUploadFee call that preceded the current one
    run        \* the runs of uploadFileToChainDirect, each with its own locals

\* The state of the MetaTree component.
VARIABLES
    processedTree,   \* props.processedTree, the tree of the extracted archive
    allFormItems,    \* the form items, the root first; an item names its children by position
    isUploading,     \* the flag that disables the upload button
    uploadProgress,  \* the progress text
    rootPinId,       \* the pointer of the root once a run has completed
    emitted,         \* the events emitted to the parent component, in order
    uploads          \* the runs of uploadSimpleTree: call stack, awaited call, calls made

treeVars ==
    <<processedTree, allFormItems, isUploading, uploadProgress, rootPinId, emitted, uploads>>

vars == <<pc, fn, args, ret, extCalls, local, prevEst, run, treeVars>>

None == [kind |-> "none"]

\* The runs of uploadFileToChainDirect that may be under way at once, and a
\* run that has not been started.
Runs == {1, 2}
Off ==
    [pc |-> "off", file |-> None, mvcFeeRate |-> None, estimatedFee |-> 0,
     utxos |-> None, finalUtxo |-> None, mergeTxHex |-> "", tx |-> None,
     preTxHex |-> "", ret |-> Pending, log |-> <<>>, pointer |-> None]

\* The calls of uploadSimpleTree that may be under way at once (the button and
\* the parent component can both call it), and a call that has not been made.
Uploads == {1, 2}
NotCalled == [pc |-> "off", stack |-> <<>>, awaited |-> 0, log |-> <<>>]

Init ==
    /\ run = [r \in Runs |-> Off]
    /\ pc = "idle"
    /\ fn = "none"
    /\ args = None
    /\ ret = None
    /\ extCalls = <<>>
    /\ local = None
    /\ prevEst = None
    /\ processedTree = Undefined
    /\ allFormItems = <<>>
    /\ isUploading = FALSE
    /\ uploadProgress = ""
    /\ rootPinId = ""
    /\ emitted = <<>>
    /\ uploads = [u \in Uploads |-> NotCalled]

\* estimateUploadFee(file): no await inside, settles at once.  It may be
\* called again right after an estimate; the earlier call is kept in prevEst.
CallEstimateUploadFee(file, mvcFeeRate) ==
    /\ pc = "idle" \/ (pc = "done" /\ fn = "estimateUploadFee")
    /\ prevEst' = IF pc = "done" THEN [kind |-> "call", args |-> args, ret |-> ret] ELSE None
    /\ pc' = "done"
    /\ fn' = "estimateUploadFee"
    /\ args' = [file |-> file, mvcFeeRate |-> mvcFeeRate]
    /\ ret' = estimateUploadFee(file, mvcFeeRate)
    /\ extCalls' = <<>>
    /\ local' = None
    /\ UNCHANGED <<run, treeVars>>

\* getWalletUTXOs(requiredAmount) up to `await window.metaidwallet.getUtxos()`.
CallGetWalletUTXOs(requiredAmount) ==
    /\ pc = "idle"
    /\ pc' = "getUtxos"
    /\ fn' = "getWalletUTXOs"
    /\ args' = [requiredAmount |-> requiredAmount, walletResult |-> Pending]
    /\ ret' = None
    /\ extCalls' = <<[call |-> "getUtxos"]>>
    /\ UNCHANGED <<local, prevEst>>
    /\ UNCHANGED <<run, treeVars>>

\* The wallet answers; the rest of getWalletUTXOs runs.
GetUtxosSettles(walletResult) ==
    /\ pc = "getUtxos"
    /\ pc' = "done"
    /\ args' = [args EXCEPT !.walletResult = walletResult]
    /\ ret' = getWalletUTXOs(walletResult, args.requiredAmount)
    /\ UNCHANGED <<fn, extCalls, local, prevEst>>
    /\ UNCHANGED <<run, treeVars>>

\* mergeUTXOs(utxoData, estimatedFee) up to the await of the wallet's pay, in
\* a page whose wallet does or does not provide pay.
CallMergeUTXOs(utxoData, estimatedFee, payIsFunction, mvcFeeRate) ==
    /\ pc = "idle"
    /\ LET start == mergeUTXOsStart(utxoData, estimatedFee, payIsFunction, mvcFeeRate) IN
        /\ pc' = start.next
        /\ extCalls' = start.calls
        /\ ret' = start.ret
    /\ fn' = "mergeUTXOs"
    /\ args' = [utxoData |-> utxoData, estimatedFee |-> estimatedFee,
                payIsFunction |-> payIsFunction, mvcFeeRate |-> mvcFeeRate,
                payResult |-> Pending]
    /\ UNCHANGED <<local, prevEst>>
    /\ UNCHANGED <<run, treeVars>>

\* The wallet answers; the rest of mergeUTXOs runs.
PaySettles(payResult) ==
    /\ pc = "pay"
    /\ pc' = "done"
    /\ args' = [args EXCEPT !.payResult = payResult]
    /\ ret' = mergeUTXOsFinish(payResult)
    /\ UNCHANGED <<fn, extCalls, local, prevEst>>
    /\ UNCHANGED <<run, treeVars>>

\* buildAndSignBaseTx(utxoData) up to the await of the signer, in a page whose
\* wallet does or does not provide signTransaction.
CallBuildAndSignBaseTx(utxoData, signerIsFunction) ==
    /\ pc = "idle"
    /\ LET start == buildAndSignBaseTxStart(utxoData, signerIsFunction) IN
        /\ pc' = start.next
        /\ extCalls' = start.calls
        /\ local' = start.local
        /\ ret' = start.ret
    /\ fn' = "buildAndSignBaseTx"
    /\ args' = [utxoData |-> utxoData, signerIsFunction |-> signerIsFunction,
                signResult |-> Pending]
    /\ UNCHANGED prevEst
    /\ UNCHANGED <<run, treeVars>>

\* The signer answers; the rest of buildAndSignBaseTx runs.
SignSettles(signResult) ==
    /\ pc = "sign"
    /\ pc' = "done"
    /\ args' = [args EXCEPT !.signResult = signResult]
    /\ LET finish == buildAndSignBaseTxFinish(local.tx, signResult) IN
        /\ local' = [local EXCEPT !.tx = finish.tx]
        /\ ret' = finish.ret
    /\ UNCHANGED <<fn, extCalls, prevEst>>
    /\ UNCHANGED <<run, treeVars>>

\* directUpload(file, preTxHex, totalInputAmount, mergeTxHex) up to the await
\* of fetch, with the fee rate the chain store holds.
CallDirectUpload(file, preTxHex, totalInputAmount, mergeTxHex, mvcFeeRate) ==
    /\ pc = "idle"
    /\ LET start == directUploadStart(file, preTxHex, totalInputAmount, mergeTxHex,
                                      mvcFeeRate) IN
        /\ pc' = start.next
        /\ extCalls' = start.calls
        /\ ret' = start.ret
    /\ fn' = "directUpload"
    /\ args' = [file |-> file, preTxHex |-> preTxHex,
                totalInputAmount |-> totalInputAmount, mergeTxHex |-> mergeTxHex,
                mvcFeeRate |-> mvcFeeRate, fetchResult |-> Pending]
    /\ UNCHANGED <<local, prevEst>>
    /\ UNCHANGED <<run, treeVars>>

\* The finalizer answers (or the request fails); the rest of directUpload runs.
FetchSettles(fetchResult) ==
    /\ pc = "fetch"
    /\ pc' = "done"
    /\ args' = [args EXCEPT !.fetchResult = fetchResult]
    /\ ret' = directUploadFinish(fetchResult)
    /\ UNCHANGED <<fn, extCalls, local, prevEst>>
    /\ UNCHANGED <<run, treeVars>>

\* The caller has taken the result; the next call starts from scratch.
Return ==
    /\ pc = "done"
    /\ pc' = "idle"
    /\ fn' = "none"
    /\ args' = None
    /\ ret' = None
    /\ extCalls' = <<>>
    /\ local' = None
    /\ prevEst' = None
    /\ UNCHANGED <<run, treeVars>>

Next ==
    \/ \E file \in Files, r \in FeeRateSource : CallEstimateUploadFee(file, r)
    \/ \E req \in RequiredAmounts : CallGetWalletUTXOs(req)
    \/ \E w \in WalletResults : GetUtxosSettles(w)
    \/ \E u \in MergeSelections, fee \in MergeFees, f \in BOOLEAN, r \in FeeRateSource :
          CallMergeUTXOs(u, fee, f, r)
    \/ \E pr \in PayResults : PaySettles(pr)
    \/ \E u \in UtxoDatas, f \in BOOLEAN : CallBuildAndSignBaseTx(u, f)
    \/ \E sr \in SignResults : SignSettles(sr)
    \/ \E f \in UploadFiles, p \in PreTxHexes, u \in UtxoPool, m \in MergeTxHexes,
          r \in FeeRateSource : CallDirectUpload(f, p, u.satoshis, m, r)
    \/ \E fr \in FetchResults : FetchSettles(fr)
    \/ Return

Spec == Init /\ [][Next]_vars

\* ================================================ uploadFileToChainDirect
\* A run is one call of uploadFileToChainDirect(file) with its local variables
\* (estimatedFee, utxos, finalUtxo, mergeTxHex, preTxHex), the transaction
\* buildAndSignBaseTx holds across its await, the promise the call returns,
\* the stages it entered and the external calls and their returns in the
\* order they happened, and the pointer uploadFile makes of the result.
Ready(file, mvcFeeRate) == [Off EXCEPT !.pc = "ready", !.file = file, !.mvcFeeRate = mvcFeeRate]

CallEvent(request) == [ev |-> "call", call |-> request.call, request |-> request]
ReturnEvent(call, result) == [ev |-> "return", call |-> call, result |-> result]
StageEvent(stage) == [ev |-> "stage", call |-> stage]

Hang(rn, error) == [rn EXCEPT !.pc = "pending"]
Swallow(rn, error) == rn
Restart(rn, error) == [rn EXCEPT !.pc = "ready"]

\* catch (error) { throw error }: the run ends with the error of the stage.
Throw(rn, error) == [rn EXCEPT !.pc = "done", !.ret = error]

\* uploadFile (MetaTree.vue): the pointer to the uploaded file.
AssetPointerNoSeparator(txId) == "metafile://" \o txId \o "0"

AssetPointer(txId) == "metafile://" \o txId \o "i0"

\* Steps 3 and 4 up to the await of the wallet's getUtxos.
StartRun(rn) ==
    LET estimatedFee == estimateUploadFee(rn.file, rn.mvcFeeRate).value
    IN  [rn EXCEPT !.pc = "getUtxos", !.estimatedFee = estimatedFee,
                   !.log = @ \o <<StageEvent("estimateUploadFee"),
                                  StageEvent("getWalletUTXOs"),
                                  CallEvent([call |-> "getUtxos"])>>]

\* Step 7 up to the await of fetch.
EnterDirectUpload(rn, preTxHex) ==
    LET start == directUploadStart(rn.file, preTxHex, rn.finalUtxo.totalAmount,
                                   rn.mergeTxHex, rn.mvcFeeRate)
        r == [rn EXCEPT !.preTxHex = preTxHex,
                        !.log = Append(@, StageEvent("directUpload"))]
    IN  IF start.next = "done"
        THEN Throw(r, start.ret)
        ELSE [r EXCEPT !.pc = "fetch", !.log = Append(@, CallEvent(start.calls[1]))]

\* Step 6 up to the await of the signer.
EnterBuildAndSign(rn, finalUtxo, mergeTxHex, signerIsFunction) ==
    LET start == buildAndSignBaseTxStart(finalUtxo, signerIsFunction)
        r == [rn EXCEPT !.finalUtxo = finalUtxo, !.mergeTxHex = mergeTxHex,
                        !.log = Append(@, StageEvent("buildAndSignBaseTx"))]
    IN  IF start.next = "done"
        THEN Throw(r, start.ret)
        ELSE [r EXCEPT !.pc = "sign", !.tx = start.local.tx,
                       !.log = Append(@, CallEvent(start.calls[1]))]

MergeTxHexDropped(mergeTxHex) == ""

\* mergeResult.mergeTxHex || ''
MergeTxHexOrEmpty(mergeTxHex) == IF mergeTxHex # "" THEN mergeTxHex ELSE ""

MultipleOrSingle(utxos) == Len(utxos.utxos) > 0

\* utxos.utxos.length > 1
Multiple(utxos) == Len(utxos.utxos) > 1

\* Step 5, lines 110-125, once the selection is there.
AfterSelection(rn, utxos, payIsFunction, signerIsFunction) ==
    LET r == [rn EXCEPT !.utxos = utxos] IN
    IF Multiple(utxos)
    THEN LET start == mergeUTXOsStart(utxos, rn.estimatedFee, payIsFunction, rn.mvcFeeRate)
             m == [r EXCEPT !.log = Append(@, StageEvent("mergeUTXOs"))]
         IN  IF start.next = "done"
             THEN Throw(m, start.ret)
             ELSE [m EXCEPT !.pc = "pay", !.log = Append(@, CallEvent(start.calls[1]))]
    ELSE EnterBuildAndSign(r, [utxos |-> Array(utxos.utxos), totalAmount |-> utxos.totalAmount],
                           "", signerIsFunction)

AfterMergeKeepsSelection(rn, mergeResult, signerIsFunction) ==
    EnterBuildAndSign(rn, [utxos |-> Array(rn.utxos.utxos),
                           totalAmount |-> rn.utxos.totalAmount],
                      MergeTxHexOrEmpty(mergeResult.mergeTxHex), signerIsFunction)

\* Lines 112-117, once mergeUTXOs has returned.
AfterMerge(rn, mergeResult, signerIsFunction) ==
    EnterBuildAndSign(rn, [utxos |-> Array(mergeResult.utxos),
                           totalAmount |-> mergeResult.totalAmount],
                      MergeTxHexOrEmpty(mergeResult.mergeTxHex), signerIsFunction)

\* ------------------------------------------------ the inputs of the runs
\* Files whose estimated fee at rate 1 is 671, 1500 and 2000 satoshis.
PipeFiles == {[size |-> sz, type |-> ""] : sz \in {0, 691, 1107}}
PipeRates == {Num(0), Num(1), Undefined}

PipeWalletResults ==
    {Fulfilled(Array(WalletUtxos(a))) :
        a \in {<<5000, 3000>>, <<800, 700, 650>>, <<700, 650>>, <<600>>, <<>>}}
    \cup {Rejected("wallet locked")}

\* The wallet's answers to a pay request: the declared output followed by a
\* change, the change first, outputs none of which pays the own address, an
\* answer without a transaction, or a refusal.
ChangeOutput == [script |-> buildPublicKeyHashOut(OwnAddress), satoshis |-> 4028]
PayAnswers(request) ==
    LET declared == request.transactions[1].txComposer.outputs
        signed(outputs) == Fulfilled(PayResultObject(
                               <<[version |-> 10, inputs |-> MergeInputs, outputs |-> outputs]>>))
    IN  {signed(declared \o <<ChangeOutput>>),
         signed(<<ChangeOutput>> \o declared),
         signed(<<[script |-> OpReturnScript, satoshis |-> 0],
                  [script |-> buildPublicKeyHashOut(OtherAddress), satoshis |-> 671]>>),
         Fulfilled(Undefined),
         Rejected("User canceled")}

\* The wallet is not bound to the request: it may answer any of them.
PipeFees == {estimateUploadFee(f, Num(1)).value : f \in PipeFiles}
PipePayResults == UNION {PayAnswers(PayRequest(fee, Num(1))) : fee \in PipeFees}

PipeSignResults ==
    {Fulfilled(SignResultObject("3044aa" \o ByteHex(sigtype))),
     Fulfilled(Null), Rejected("User rejected")}

\* Transaction ids are hexadecimal strings.
TxIds == {"c0ffee", "c0ffee0", "0c0ffee"}
PipeFetchResults ==
    {Fulfilled([status |-> 200,
                body |-> [kind |-> "json",
                          json |-> [code |-> 0, message |-> Undefined,
                                    data |-> [txId |-> t, pinId |-> t \o "i0",
                                              status |-> "success"]]]]) : t \in TxIds}
    \cup {Fulfilled([status |-> 200,
                     body |-> [kind |-> "json",
                               json |-> [code |-> 1, message |-> Str("broadcast failed"),
                                         data |-> UploadData]]]),
          Rejected("Failed to fetch")}

\* ------------------------------------------------------------ the steps
\* uploadFileToChainDirect(file) is called: the fee is estimated and
\* getWalletUTXOs asks the wallet for its outputs.
UploadStart(r) ==
    /\ run[r].pc = "ready"
    /\ run' = [run EXCEPT ![r] = StartRun(@)]
    /\ UNCHANGED <<pc, fn, args, ret, extCalls, local, prevEst, treeVars>>

\* The wallet answers getUtxos: getWalletUTXOs selects, then either mergeUTXOs
\* asks the wallet to pay or buildAndSignBaseTx asks it to sign.
UploadGetUtxosSettles(r, walletResult, payIsFunction, signerIsFunction) ==
    /\ run[r].pc = "getUtxos"
    /\ LET rn == [run[r] EXCEPT !.log = Append(@, ReturnEvent("getUtxos", walletResult))]
           utxos == getWalletUTXOs(walletResult, rn.estimatedFee)
       IN  run' = [run EXCEPT ![r] =
                      IF utxos.status = "rejected"
                      THEN Throw(rn, utxos)
                      ELSE AfterSelection(rn, utxos.value, payIsFunction, signerIsFunction)]
    /\ UNCHANGED <<pc, fn, args, ret, extCalls, local, prevEst, treeVars>>

\* The wallet answers pay: mergeUTXOs returns, then buildAndSignBaseTx asks
\* the wallet to sign.
UploadPaySettles(r, payResult, signerIsFunction) ==
    /\ run[r].pc = "pay"
    /\ LET rn == [run[r] EXCEPT !.log = Append(@, ReturnEvent("pay", payResult))]
           mergeResult == mergeUTXOsFinish(payResult)
       IN  run' = [run EXCEPT ![r] =
                      IF mergeResult.status = "rejected"
                      THEN Throw(rn, mergeResult)
                      ELSE AfterMerge(rn, mergeResult.value, signerIsFunction)]
    /\ UNCHANGED <<pc, fn, args, ret, extCalls, local, prevEst, treeVars>>

\* The wallet answers signTransaction: buildAndSignBaseTx returns, then
\* directUpload submits to the finalizer.
UploadSignSettles(r, signResult) ==
    /\ run[r].pc = "sign"
    /\ LET rn == [run[r] EXCEPT !.log = Append(@, ReturnEvent("signTransaction", signResult))]
           finish == buildAndSignBaseTxFinish(rn.tx, signResult)
       IN  run' = [run EXCEPT ![r] =
                      IF finish.ret.status = "rejected"
                      THEN Throw(rn, finish.ret)
                      ELSE EnterDirectUpload([rn EXCEPT !.tx = finish.tx], finish.ret.value)]
    /\ UNCHANGED <<pc, fn, args, ret, extCalls, local, prevEst, treeVars>>

\* The finalizer answers: directUpload and uploadFileToChainDirect return, and
\* uploadFile makes the pointer of the result.
UploadFetchSettles(r, fetchResult) ==
    /\ run[r].pc = "fetch"
    /\ LET rn == [run[r] EXCEPT !.log = Append(@, ReturnEvent("fetch", fetchResult))]
           uploadResult == directUploadFinish(fetchResult)
       IN  run' = [run EXCEPT ![r] =
                      IF uploadResult.status = "rejected"
                      THEN Throw(rn, uploadResult)
                      ELSE [rn EXCEPT !.pc = "done", !.ret = uploadResult,
                                      !.pointer = Str(AssetPointer(uploadResult.value.txId))]]
    /\ UNCHANGED <<pc, fn, args, ret, extCalls, local, prevEst, treeVars>>

PipeNext ==
    \/ \E r \in Runs : UploadStart(r)
    \/ \E r \in Runs, w \in PipeWalletResults, p \in BOOLEAN, f \in BOOLEAN :
          UploadGetUtxosSettles(r, w, p, f)
    \/ \E r \in Runs, pr \in PipePayResults, f \in BOOLEAN : UploadPaySettles(r, pr, f)
    \/ \E r \in Runs, sr \in PipeSignResults : UploadSignSettles(r, sr)
    \/ \E r \in Runs, fr \in PipeFetchResults : UploadFetchSettles(r, fr)

\* Two calls of uploadFileToChainDirect have been made and nothing orders
\* their steps; each has its file and the fee rate the store holds for it.
PipeInit ==
    /\ Init!2 /\ Init!3 /\ Init!4 /\ Init!5 /\ Init!6 /\ Init!7 /\ Init!8
    /\ Init!9 /\ Init!10 /\ Init!11 /\ Init!12 /\ Init!13 /\ Init!14 /\ Init!15
    /\ run \in [Runs -> {Ready(file, rate) : file \in PipeFiles, rate \in PipeRates}]

SpecPipe == PipeInit /\ [][PipeNext]_vars

\* Every call that was made is answered at some time, and a call that can be
\* made is made.
PipeFairness ==
    \A r \in Runs :
        /\ WF_vars(UploadStart(r))
        /\ WF_vars(\E w \in PipeWalletResults, p \in BOOLEAN, f \in BOOLEAN :
                      UploadGetUtxosSettles(r, w, p, f))
        /\ WF_vars(\E pr \in PipePayResults, f \in BOOLEAN : UploadPaySettles(r, pr, f))
        /\ WF_vars(\E sr \in PipeSignResults : UploadSignSettles(r, sr))
        /\ WF_vars(\E fr \in PipeFetchResults : UploadFetchSettles(r, fr))

SpecPipeLive == PipeInit /\ [][PipeNext]_vars /\ PipeFairness

\* =============================================================== MetaTree.vue
\* ------------------------------------------------------------ the form tree
\* A FileTreeNode of the extracted archive.  blob says whether node.blob is
\* set; a directory carries its children array (zip-handler creates every
\* directory with one), a file has none.
FileNode(name, blob) ==
    [name |-> name, type |-> "file", children |-> <<>>, blob |-> blob]
DirNode(name, children) ==
    [name |-> name, type |-> "directory", children |-> children, blob |-> FALSE]

IsSystemEntry(node) ==
    \/ node.name = "__MACOSX" /\ node.type = "directory"
    \/ node.name = ".DS_Store" /\ node.type = "file"

\* filterSystemFiles(node): null for __MACOSX and .DS_Store, a file as it is,
\* a directory with its filtered children; a directory left with no child is
\* kept, its children undefined (the empty sequence here).
RECURSIVE filterSystemFiles(_)
filterSystemFiles(node) ==
    IF IsSystemEntry(node) THEN Null
    ELSE IF node.type = "file" THEN node
    ELSE LET filteredChildren ==
                 SelectSeq([i \in DOMAIN node.children |->
                               filterSystemFiles(node.children[i])],
                           LAMBDA child : child # Null)
         IN  [node EXCEPT !.children = filteredChildren]

\* convertNodeToFormItem(node, level): null for a system entry, else the form
\* item of the node; children is set only when a converted child is left.
\* Of node, the item keeps what the upload reads: whether node.blob is set.
RECURSIVE convertNodeToFormItem(_, _)
convertNodeToFormItem(node, level) ==
    IF IsSystemEntry(node) THEN Null
    ELSE [name |-> node.name,
          type |-> IF node.type = "file" THEN "blob" ELSE "tree",
          level |-> level,
          blob |-> node.blob,
          children |->
              SelectSeq([i \in DOMAIN node.children |->
                            convertNodeToFormItem(node.children[i], level + 1)],
                        LAMBDA child : child # Null)]

\* The number of items saveAllItems lists for an item and for the first k of
\* its children.
RECURSIVE CountItems(_)
RECURSIVE CountFirst(_, _)
CountItems(item) == 1 + CountFirst(item.children, Len(item.children))
CountFirst(children, k) ==
    IF k = 0 THEN 0 ELSE CountFirst(children, k - 1) + CountItems(children[k])

\* saveAllItems(item): the item, then the lists of its children in order.
\* The list holds references: here an item at position `at` names its
\* children by their positions in the list, and pinId is not set yet.
RECURSIVE saveAllItems(_, _)
RECURSIVE SaveChildren(_, _, _)
ChildPosition(item, at, k) == at + 1 + CountFirst(item.children, k - 1)
saveAllItems(item, at) ==
    <<[name |-> item.name, type |-> item.type, level |-> item.level, blob |-> item.blob,
       children |-> [k \in DOMAIN item.children |-> ChildPosition(item, at, k)],
       pinId |-> ""]>>
    \o SaveChildren(item, at, 1)
SaveChildren(item, at, k) ==
    IF k > Len(item.children) THEN <<>>
    ELSE saveAllItems(item.children[k], ChildPosition(item, at, k))
         \o SaveChildren(item, at, k + 1)

\* buildFormData: no item when there is no tree or the root is filtered out.
buildFormData(tree) ==
    IF tree = Undefined THEN <<>>
    ELSE LET filteredTree == filterSystemFiles(tree)
         IN  IF filteredTree = Null THEN <<>>
             ELSE LET rootItem == convertNodeToFormItem(filteredTree, 0)
                  IN  IF rootItem = Null THEN <<>> ELSE saveAllItems(rootItem, 1)

\* --------------------------------------------------- uploading the form tree
\* The texts of the component are Chinese in the source; they are rendered
\* in English here, the item's name at the same place.
NoContent(name) == "file " \o name \o " has no content"
NoChildren(name) == "directory " \o name \o " has no children"

\* What one synchronous stretch of a run works on: the items (pinId is
\* written to them), the progress text, the run, and the error thrown or the
\* pointer returned to uploadSimpleTree, if any.
Stretch(up) ==
    [items |-> allFormItems, progress |-> uploadProgress, up |-> up, thrown |-> "",
     returned |-> ""]

\* The calls of a run, each with its outcome once it has settled.
Call(op, item, body) ==
    [op |-> op, item |-> item, body |-> body, outcome |-> "pending", pinId |-> ""]
Settled(log, outcome, pinId) ==
    [log EXCEPT ![Len(log)].outcome = outcome, ![Len(log)].pinId = pinId]

\* uploadFile(item) up to its await: throws when the node has no blob, else
\* compresses the blob and calls uploadFileToChainDirect.
uploadFile(m, item) ==
    IF ~m.items[item].blob
    THEN [m EXCEPT !.thrown = NoContent(m.items[item].name)]
    ELSE [m EXCEPT !.up.pc = "uploadFile", !.up.awaited = item,
                   !.up.log = Append(@, Call("uploadFile", item, None))]

\* The body of the tree record: the name of the directory and its entries.
TreeBody(m, frame) == [treeName |-> m.items[frame.item].name, entries |-> frame.entries]

\* uploadDirectory records a directory without going through its children.
NextChildSkipping(m) ==
    LET frame == m.up.stack[Len(m.up.stack)]
    IN  [m EXCEPT !.progress = "uploading directory: " \o m.items[frame.item].name,
                  !.up.pc = "createSimpletree", !.up.awaited = frame.item,
                  !.up.log = Append(@, Call("createSimpletree", frame.item, TreeBody(m, frame)))]

\* uploadDirectory(item): throws for a directory without children; else the
\* loop over the children, each awaited before the next, then createSimpletree
\* with the entries.  A call under way is a frame of the run's stack: the
\* item, the child the loop is at, and the entries pushed so far.  NextChild
\* runs the loop of the innermost directory from its current child to the
\* next await or throw.
RECURSIVE NextChild(_)
RECURSIVE uploadDirectory(_, _)
NextChild(m) ==
    LET frame == m.up.stack[Len(m.up.stack)]
        item == m.items[frame.item]
    IN  IF frame.next > Len(item.children)
        THEN [m EXCEPT !.progress = "uploading directory: " \o item.name,
                       !.up.pc = "createSimpletree", !.up.awaited = frame.item,
                       !.up.log = Append(@, Call("createSimpletree", frame.item, TreeBody(m, frame)))]
        ELSE LET child == item.children[frame.next]
                 m1 == [m EXCEPT !.progress = "processing: " \o m.items[child].name]
             IN  IF m.items[child].type = "blob"
                 THEN uploadFile(m1, child)
                 ELSE uploadDirectory(m1, child)
uploadDirectory(m, item) ==
    IF m.items[item].children = <<>>
    THEN [m EXCEPT !.thrown = NoChildren(m.items[item].name)]
    ELSE NextChild([m EXCEPT
             !.up.stack = Append(@, [item |-> item, next |-> 1, entries |-> <<>>])])

\* The loop after the await of a child: child.pinId, the entry, the next child.
ChildUploaded(m, pinId) ==
    LET depth == Len(m.up.stack)
        frame == m.up.stack[depth]
        child == m.items[frame.item].children[frame.next]
    IN  NextChild([m EXCEPT
            !.items[child].pinId = pinId,
            !.up.stack[depth].entries =
                Append(@, [type |-> m.items[child].type, file |-> pinId,
                           name |-> m.items[child].name]),
            !.up.stack[depth].next = @ + 1])

\* The transaction id the chain gives to the n-th call of run u.
ChainTxId(u, n) == "tx" \o NumToStr(u) \o "n" \o NumToStr(n)

\* ------------------------------------------------ the runs of uploadSimpleTree
\* How a synchronous stretch of run u leaves the component: the run goes on
\* to its next await (the flag and the root pointer then are `uploading` and
\* `pin`), or it ends: try stores the root pointer and emits upload-complete,
\* catch emits upload-error with the error, finally clears the flag.  The
\* alerts are not modelled; `by` notes the run that emitted.
Lands(u, m, uploading, pin) ==
    /\ allFormItems' = m.items
    /\ IF m.thrown # ""
       THEN /\ uploadProgress' = "upload failed: " \o m.thrown
            /\ emitted' = Append(emitted, [event |-> "upload-error", value |-> m.thrown,
                                           by |-> u])
            /\ isUploading' = FALSE
            /\ rootPinId' = pin
            /\ uploads' = [uploads EXCEPT
                              ![u] = [m.up EXCEPT !.pc = "done", !.stack = <<>>, !.awaited = 0]]
       ELSE IF m.returned # ""
       THEN /\ uploadProgress' = "upload complete"
            /\ emitted' = Append(emitted, [event |-> "upload-complete",
                                           value |-> m.returned, by |-> u])
            /\ isUploading' = FALSE
            /\ rootPinId' = m.returned
            /\ uploads' = [uploads EXCEPT
                              ![u] = [m.up EXCEPT !.pc = "done", !.stack = <<>>, !.awaited = 0]]
       ELSE /\ uploadProgress' = m.progress
            /\ emitted' = emitted
            /\ isUploading' = uploading
            /\ rootPinId' = pin
            /\ uploads' = [uploads EXCEPT ![u] = m.up]

\* uploadSimpleTree() up to its first await: returns at once when there is no
\* form item; else sets the flag, clears the root pointer and uploads the
\* root item, a file or a directory.
uploadSimpleTree(u) ==
    /\ uploads[u].pc = "off"
    /\ IF allFormItems = <<>>
       THEN /\ uploads' = [uploads EXCEPT ![u].pc = "done"]
            /\ UNCHANGED <<allFormItems, isUploading, uploadProgress, rootPinId, emitted>>
       ELSE LET m == [Stretch(uploads[u]) EXCEPT !.progress = "starting upload"]
            IN  Lands(u,
                      IF allFormItems[1].type = "blob"
                      THEN uploadFile(m, 1) ELSE uploadDirectory(m, 1),
                      TRUE, "")

\* The upload button: disabled while isUploading or with no form item.
ClickUpload(u) ==
    /\ ~isUploading
    /\ allFormItems # <<>>
    /\ uploadSimpleTree(u)
    /\ UNCHANGED <<pc, fn, args, ret, extCalls, local, prevEst, run, processedTree>>

\* The parent component calls the uploadSimpleTree it is given by defineExpose.
ParentCallsUpload(u) ==
    /\ uploadSimpleTree(u)
    /\ UNCHANGED <<pc, fn, args, ret, extCalls, local, prevEst, run, processedTree>>

\* uploadFileToChainDirect settles for the file run u awaits: the pointer is
\* returned to the loop of the directory (or to uploadSimpleTree for a root
\* file), or the error is thrown through every uploadDirectory under way.
UploadFileSettles(u, ok) ==
    /\ uploads[u].pc = "uploadFile"
    /\ LET up == uploads[u]
           pinId == AssetPointer(ChainTxId(u, Len(up.log)))
           m == Stretch([up EXCEPT !.awaited = 0,
                                   !.log = Settled(@, IF ok THEN "ok" ELSE "failed",
                                                   IF ok THEN pinId ELSE "")])
       IN  Lands(u,
                 IF ~ok THEN [m EXCEPT !.thrown = "Failed to upload file"]
                 ELSE IF up.stack = <<>> THEN [m EXCEPT !.returned = pinId]
                 ELSE ChildUploaded(m, pinId),
                 isUploading, rootPinId)
    /\ UNCHANGED <<pc, fn, args, ret, extCalls, local, prevEst, run, processedTree>>

\* createSimpletree settles for the directory run u awaits: the pointer, the
\* txid followed by i0, is set as item.pinId and returned to the directory
\* above, or the error is thrown.
CreateSimpletreeSettles(u, ok) ==
    /\ uploads[u].pc = "createSimpletree"
    /\ LET up == uploads[u]
           depth == Len(up.stack)
           item == up.stack[depth].item
           pinId == ChainTxId(u, Len(up.log)) \o "i0"
           m == Stretch([up EXCEPT !.awaited = 0,
                                   !.stack = SubSeq(@, 1, depth - 1),
                                   !.log = Settled(@, IF ok THEN "ok" ELSE "failed",
                                                   IF ok THEN pinId ELSE "")])
           m1 == [m EXCEPT !.items[item].pinId = pinId]
       IN  Lands(u,
                 IF ~ok THEN [m EXCEPT !.thrown = "Failed to create simpletree"]
                 ELSE IF depth = 1 THEN [m1 EXCEPT !.returned = pinId]
                 ELSE ChildUploaded(m1, pinId),
                 isUploading, rootPinId)
    /\ UNCHANGED <<pc, fn, args, ret, extCalls, local, prevEst, run, processedTree>>

\* ----------------------------------------------------- the archives uploaded
\* The entries an archive's root directory may hold: files with and without
\* content, the system entries, and directories: with a file, empty, holding
\* only a system file, and holding a directory.
MaxChildren == 2
RootEntries ==
    {FileNode("a.txt", TRUE), FileNode(".DS_Store", TRUE), FileNode("b.bin", FALSE),
     DirNode("docs", <<FileNode("c.txt", TRUE)>>),
     DirNode("empty", <<>>),
     DirNode("mac", <<FileNode(".DS_Store", TRUE)>>),
     DirNode("__MACOSX", <<FileNode("x.txt", TRUE)>>),
     DirNode("deep", <<DirNode("inner", <<FileNode("d.txt", TRUE)>>)>>)}

\* The trees the component is given: none, a single file, or a root
\* directory with up to MaxChildren entries.
ArchiveTrees ==
    {Undefined, FileNode("index.html", TRUE)}
    \cup {DirNode("site", children) :
             children \in UNION {[1..n -> RootEntries] : n \in 0..MaxChildren}}

TreeNext ==
    \/ \E u \in Uploads : ClickUpload(u)
    \/ \E u \in Uploads : ParentCallsUpload(u)
    \/ \E u \in Uploads, ok \in BOOLEAN : UploadFileSettles(u, ok)
    \/ \E u \in Uploads, ok \in BOOLEAN : CreateSimpletreeSettles(u, ok)

\* The component is mounted with a tree and has built its form; no upload
\* has been asked for.
TreeInit ==
    /\ Init!1 /\ Init!2 /\ Init!3 /\ Init!4 /\ Init!5 /\ Init!6 /\ Init!7 /\ Init!8
    /\ processedTree \in ArchiveTrees
    /\ allFormItems = buildFormData(processedTree)
    /\ Init!11 /\ Init!12 /\ Init!13 /\ Init!14 /\ Init!15

SpecTree == TreeInit /\ [][TreeNext]_vars

\* ================================================================== claims
\* ------------------------------------------------ helpers for the selector
RECURSIVE SumValues(_)
SumValues(items) ==
    IF items = <<>> THEN 0 ELSE Head(items).value + SumValues(Tail(items))

StartsWith(s, prefix) ==
    Len(s) >= Len(prefix) /\ SubSeq(s, 1, Len(prefix)) = prefix

\* A call of getWalletUTXOs has returned after the wallet answered its query.
SelectorDone ==
    pc = "done" /\ fn = "getWalletUTXOs" /\ args.walletResult.status = "fulfilled"

\* The wallet's outputs as the selector saw them (none when the answer is missing).
WalletItems ==
    IF args.walletResult.value.kind = "array" THEN args.walletResult.value.items ELSE <<>>

UsableItems == SelectSeq(WalletItems, LAMBDA u : u.value > 600)

\* Some subset of the wallet's outputs has a total amount >= requiredAmount + 1.
CoveringSubsetExists ==
    \E S \in SUBSET (1..Len(WalletItems)) :
        SumValues(SelectSeq([i \in 1..Len(WalletItems) |->
                                [value |-> IF i \in S THEN WalletItems[i].value ELSE 0]],
                            LAMBDA u : TRUE))
            >= args.requiredAmount + 1

SelectorOk == ret.status = "fulfilled"
SelectorFailed == ret.status = "rejected"

NoFunds == SelectorFailed /\ ret.message = "Failed to get UTXOs: No available UTXOs in wallet"
NoUsableFunds ==
    /\ SelectorFailed
    /\ ret.message = "Failed to get UTXOs: No UTXOs larger than 600 satoshis available in wallet"
InsufficientBalance ==
    /\ SelectorFailed
    /\ StartsWith(ret.message, "Failed to get UTXOs: Insufficient balance!")

\* C1: a selection returned by getWalletUTXOs has a totalAmount that is the sum
\* of the returned outputs' amounts and is at least requiredAmount + 1.
C1_TotalCoversRequired ==
    (SelectorDone /\ SelectorOk) =>
        /\ ret.value.totalAmount = SumSatoshis(ret.value.utxos)
        /\ ret.value.totalAmount >= args.requiredAmount + 1

\* C1 witness: a selection of several outputs was returned.
C1_Witness ==
    SelectorDone /\ SelectorOk /\ Len(ret.value.utxos) >= 2

\* C2 as stated: a covering subset of the wallet's outputs exists => success;
\* none exists => failure with InsufficientBalance.
C2_Original ==
    SelectorDone =>
        /\ CoveringSubsetExists => SelectorOk
        /\ ~CoveringSubsetExists => InsufficientBalance

\* C2 amended: getWalletUTXOs succeeds exactly when the outputs above 600
\* satoshis total at least requiredAmount + 1; otherwise it fails, with
\* InsufficientBalance when some output is above 600, with NoUsableFunds when
\* the set is non-empty and none is, with NoFunds when the set is empty.
C2_SucceedsIffUsableCover ==
    SelectorDone =>
        /\ SelectorOk <=> SumValues(UsableItems) >= args.requiredAmount + 1
        /\ SelectorFailed =>
              /\ InsufficientBalance <=> Len(UsableItems) > 0
              /\ NoUsableFunds <=> (Len(WalletItems) > 0 /\ Len(UsableItems) = 0)
              /\ NoFunds <=> Len(WalletItems) = 0

\* C2 witness: a covering subset exists only with the help of outputs of at most
\* 600 satoshis, and the selection failed with InsufficientBalance.
C2_Witness ==
    /\ SelectorDone /\ CoveringSubsetExists /\ InsufficientBalance
    /\ SumValues(UsableItems) < args.requiredAmount + 1

\* C3 as stated: no output of at most 600 satoshis is selected, and when the
\* outputs above 600 do not reach requiredAmount + 1 while all outputs
\* together would, the selection fails with InsufficientBalance.
C3_Original ==
    SelectorDone =>
        /\ SelectorOk => \A i \in 1..Len(ret.value.utxos) : ret.value.utxos[i].satoshis > 600
        /\ (/\ SumValues(UsableItems) < args.requiredAmount + 1
            /\ SumValues(WalletItems) >= args.requiredAmount + 1) => InsufficientBalance

\* C3 amended: no output of at most 600 satoshis is selected, and when the
\* outputs above 600 do not reach requiredAmount + 1 the selection fails even
\* if all outputs together would reach it: with InsufficientBalance when
\* there is an output above 600, with NoUsableFunds (or NoFunds) when not.
C3_DustNeverCounts ==
    SelectorDone =>
        /\ SelectorOk => \A i \in 1..Len(ret.value.utxos) : ret.value.utxos[i].satoshis > 600
        /\ SumValues(UsableItems) < args.requiredAmount + 1 =>
              /\ SelectorFailed
              /\ Len(UsableItems) > 0 => InsufficientBalance
              /\ Len(UsableItems) = 0 => (NoUsableFunds \/ NoFunds)

\* C3 witness: all outputs together reach the bound, those above 600 do not,
\* and the selection failed with InsufficientBalance.
C3_Witness ==
    /\ SelectorDone
    /\ SumValues(WalletItems) >= args.requiredAmount + 1
    /\ Len(UsableItems) > 0
    /\ SumValues(UsableItems) < args.requiredAmount + 1
    /\ InsufficientBalance

\* C4: an empty or missing output set fails with NoFunds, a non-empty set of
\* outputs of at most 600 satoshis with NoUsableFunds; NoFunds, NoUsableFunds
\* and InsufficientBalance exclude each other and are decided in that order.
C4_SelectorErrorsInOrder ==
    SelectorDone =>
        /\ Len(WalletItems) = 0 => NoFunds
        /\ (Len(WalletItems) > 0 /\ Len(UsableItems) = 0) => NoUsableFunds
        /\ InsufficientBalance => (Len(WalletItems) > 0 /\ Len(UsableItems) > 0)
        /\ ~(NoFunds /\ NoUsableFunds)
        /\ ~(NoFunds /\ InsufficientBalance)
        /\ ~(NoUsableFunds /\ InsufficientBalance)
        /\ SelectorFailed => (NoFunds \/ NoUsableFunds \/ InsufficientBalance)

\* C4 witness: only outputs of at most 600 satoshis, too few for the required
\* amount as well, and the failure is NoUsableFunds.
C4_Witness ==
    /\ SelectorDone /\ Len(WalletItems) > 0 /\ Len(UsableItems) = 0
    /\ SumValues(WalletItems) < args.requiredAmount + 1
    /\ NoUsableFunds

\* ----------------------------------------------- helpers for the estimator
EstimatorDone == pc = "done" /\ fn = "estimateUploadFee"

\* The fee rate as the claims take it: the value of the fee-rate source, and 1
\* only when the source yields no value.
StatedRate == IF args.mvcFeeRate.kind = "number" THEN args.mvcFeeRate.n ELSE 1

StatedSize == 200 + 150 + 2 * 34 + 50 + 91 + args.file.size

\* ceil(x * 1.2) for a natural number x
Ceil12(x) == CHOOSE f \in 0..(2 * x) : 5 * f >= 6 * x /\ 5 * (f - 1) < 6 * x

\* C5: estimateUploadFee returns ceil(ceil(size * rate) * 1.2) with
\* size = 200 + 150 + 2*34 + 50 + 91 + file byte length and rate the current
\* fee rate, taken as 1 when the source yields no value; for fee rate 1 and a
\* 1000-byte file the size is 1559 and the fee 1871.
C5_FeeFormula ==
    EstimatorDone =>
        /\ ret.status = "fulfilled"
        /\ ret.value \in Nat
        /\ ret.value = Ceil12(StatedSize * StatedRate)
        /\ (args.mvcFeeRate = Num(1) /\ args.file.size = 1000) =>
               (StatedSize = 1559 /\ ret.value = 1871)

\* C6: the margined fee is a non-negative integer, and for two file sizes
\* s1 < s2 at the same fee rate >= 0 the fee for s2 is strictly greater than
\* the fee for s1 when the rate is > 0 and equal to it when the rate is 0.
C6_FeeMonotone ==
    EstimatorDone =>
        /\ ret.value \in Nat
        /\ (/\ prevEst.kind = "call"
            /\ prevEst.args.mvcFeeRate = args.mvcFeeRate
            /\ args.mvcFeeRate.kind = "number"
            /\ prevEst.args.file.size < args.file.size) =>
               /\ args.mvcFeeRate.n > 0 => ret.value > prevEst.ret.value
               /\ args.mvcFeeRate.n = 0 => ret.value = prevEst.ret.value

\* ------------------------------------------------- helpers for the builder
BuilderCalled == fn = "buildAndSignBaseTx"
BuilderDone == BuilderCalled /\ pc = "done"

\* The UTXO list of the call is missing, empty or has two or more elements.
BadUtxoList ==
    \/ args.utxoData.utxos.kind # "array"
    \/ Len(args.utxoData.utxos.items) = 0
    \/ Len(args.utxoData.utxos.items) >= 2

SignerCalls == SelectSeq(extCalls, LAMBDA c : c.call = "signTransaction")

BuilderPrefix == "Failed to build/sign MVC transaction: "

ContractViolation ==
    /\ ret.status = "rejected"
    /\ StartsWith(ret.message, BuilderPrefix \o "SIGHASH_SINGLE requires exactly 1 UTXO, got ")

SignerUnavailable ==
    /\ ret.status = "rejected"
    /\ ret.message = BuilderPrefix \o "window.metaidwallet.signTransaction is not a function"

SignatureRejected ==
    /\ ret.status = "rejected"
    /\ \/ ret.message = BuilderPrefix \o "Failed to get signature"
       \/ /\ args.signResult.status = "rejected"
          /\ ret.message = BuilderPrefix \o args.signResult.message

\* C7: a call of buildAndSignBaseTx whose UTXO list is missing, empty or has
\* two or more elements is rejected with the contract violation, and no call
\* of the signer is made in it.
C7_RejectsBeforeSigning ==
    (BuilderCalled /\ BadUtxoList) =>
        /\ pc = "done"
        /\ ContractViolation
        /\ SignerCalls = <<>>

\* C7 witness: a call with two UTXOs was rejected.
C7_Witness ==
    /\ BuilderDone /\ args.signerIsFunction
    /\ args.utxoData.utxos.kind = "array" /\ Len(args.utxoData.utxos.items) = 2
    /\ ContractViolation

\* C8: a transaction returned by buildAndSignBaseTx has exactly one input, the
\* given UTXO, and exactly one output of 1 satoshi to the uploader's own
\* address; the one signature requested is for input 0 with the UTXO's locking
\* script and amount and signature type 0xC3, the type that also ends the
\* signature in the unlocking script.
C8_OneInputOneOutput ==
    (BuilderDone /\ ret.status = "fulfilled") =>
        LET utxo == args.utxoData.utxos.items[1]
            tx == local.tx
        IN  /\ ret.value = TxHex(tx)
            /\ Len(tx.inputs) = 1
            /\ tx.inputs[1].prevTxId = utxo.txId
            /\ tx.inputs[1].outputIndex = utxo.outputIndex
            /\ Len(tx.outputs) = 1
            /\ tx.outputs[1].satoshis = 1
            /\ tx.outputs[1].script = "76a914" \o OwnAddress \o "88ac"
            /\ Len(extCalls) = 1
            /\ extCalls[1].call = "signTransaction"
            /\ extCalls[1].inputIndex = 0
            /\ extCalls[1].scriptHex = utxo.script
            /\ extCalls[1].satoshis = utxo.satoshis
            /\ extCalls[1].sigtype = 195
            /\ extCalls[1].address = OwnAddress
            /\ tx.inputs[1].script =
                   "<" \o SubSeq(args.signResult.value.signature.sig, 1,
                                 Len(args.signResult.value.signature.sig) - 2)
                   \o "c3><" \o args.signResult.value.signature.publicKey \o ">"

\* C8 witness: a signed transaction was returned for the 5000-satoshi output.
C8_Witness ==
    /\ BuilderDone /\ ret.status = "fulfilled"
    /\ args.utxoData.utxos.items[1].satoshis = 5000

\* C9: with one UTXO given, buildAndSignBaseTx fails with SignerUnavailable
\* when the wallet has no signTransaction, and with SignatureRejected when the
\* signer refuses or returns nothing; no transaction is returned then, and the
\* two failures differ.
C9_SignerFailures ==
    (BuilderDone /\ ~BadUtxoList) =>
        /\ ~args.signerIsFunction => (SignerUnavailable /\ SignerCalls = <<>>)
        /\ (/\ args.signerIsFunction
            /\ \/ args.signResult.status = "rejected"
               \/ /\ args.signResult.status = "fulfilled"
                  /\ args.signResult.value.kind # "object") => SignatureRejected
        /\ ~(SignerUnavailable /\ SignatureRejected)
        /\ ret.status = "fulfilled" =>
               (/\ args.signerIsFunction
                /\ args.signResult.status = "fulfilled"
                /\ args.signResult.value.kind = "object")

\* C9 witness: the signer was asked and returned null.
C9_Witness ==
    /\ BuilderDone /\ ~BadUtxoList /\ args.signerIsFunction
    /\ args.signResult = Fulfilled(Null)
    /\ SignatureRejected

\* C9 witness for the other failure: the wallet has no signTransaction.
C9_WitnessUnavailable ==
    BuilderDone /\ ~BadUtxoList /\ ~args.signerIsFunction /\ SignerUnavailable

\* ------------------------------------------------ helpers for directUpload
\* A call of directUpload has returned after its request was answered.
UploadDone == pc = "done" /\ fn = "directUpload" /\ args.fetchResult.status # "pending"

UploadFailed ==
    ret.status = "rejected" /\ StartsWith(ret.message, "DirectUpload failed: ")

TransportSucceeded ==
    /\ args.fetchResult.status = "fulfilled"
    /\ args.fetchResult.value.status \in 200..299

\* The response body is a DirectUploadResponse.
BodyRead == TransportSucceeded /\ args.fetchResult.value.body.kind = "json"

ResponseCode == args.fetchResult.value.body.json.code
ResponseMessage == args.fetchResult.value.body.json.message

\* C10: directUpload fails with UploadFailed whenever the transport status is
\* not a success or the response's code is not 0, in the latter case with the
\* server's message verbatim ({code: 1, message: "insufficient fee"} gives a
\* failure containing "insufficient fee"); it returns the response's data only
\* when the transport succeeded and the code is 0; the request is sent once.
C10_UploadFailedOrData ==
    UploadDone =>
        /\ ~TransportSucceeded => UploadFailed
        /\ (BodyRead /\ ResponseCode # 0) =>
              /\ UploadFailed
              /\ ResponseMessage.kind = "string" =>
                     ret.message = "DirectUpload failed: " \o ResponseMessage.s
              /\ ResponseMessage = Str("insufficient fee") =>
                     Includes(ret.message, "insufficient fee")
        /\ ret.status = "fulfilled" =>
              /\ BodyRead
              /\ ResponseCode = 0
              /\ ret.value = args.fetchResult.value.body.json.data
        /\ (BodyRead /\ ResponseCode = 0) => ret.status = "fulfilled"
        /\ ret.status \in {"fulfilled", "rejected"}
        /\ Len(extCalls) = 1

\* C10 witness: the finalizer answered 200 with code 1 and "insufficient fee".
C10_Witness ==
    /\ UploadDone /\ BodyRead /\ ResponseCode = 1
    /\ ResponseMessage = Str("insufficient fee")
    /\ ret = Rejected("DirectUpload failed: insufficient fee")

\* ------------------------------------------------------- claims on mergeUTXOs
MergeDone == pc = "done" /\ fn = "mergeUTXOs"
MergeOk == MergeDone /\ ret.status = "fulfilled"
MergeRejected == MergeDone /\ ret.status = "rejected"

\* The wallet answered with a signed transaction.
HasSignedTx ==
    /\ MergeDone
    /\ args.payResult.status = "fulfilled"
    /\ args.payResult.value.kind = "object"
    /\ Len(args.payResult.value.payedTransactions) > 0

SignedOutputs == args.payResult.value.payedTransactions[1].outputs
PaysCaller(output) == output.script = buildPublicKeyHashOut(OwnAddress)
CallerOutputs == {i \in 1..Len(SignedOutputs) : PaysCaller(SignedOutputs[i])}
MergedOutput == ret.value.utxos[1]

\* C12: whenever mergeUTXOs succeeds, the amount of the merged output (and the
\* total it reports) is the fee estimate it was called with, the amount of the
\* declared output, and no other amount of the signed transaction.
C12_MergedAmountIsEstimate ==
    MergeOk =>
        /\ Len(ret.value.utxos) = 1
        /\ MergedOutput.satoshis = args.estimatedFee
        /\ ret.value.totalAmount = args.estimatedFee

\* C19: when exactly one output of the signed merge transaction pays the
\* caller's own address, mergeUTXOs returns that output, with its index,
\* script and amount and the id of the merge transaction, wherever it stands
\* among the outputs; matching the same transaction again gives the same.
C19_UniqueSelfPayingOutput ==
    (HasSignedTx /\ Cardinality(CallerOutputs) = 1) =>
        LET i == CHOOSE j \in CallerOutputs : TRUE
            hex == TxHex(args.payResult.value.payedTransactions[1])
        IN  /\ MergeOk
            /\ ret.value.utxos =
                  <<[txId |-> TxIdOf(hex), outputIndex |-> i - 1,
                     script |-> SignedOutputs[i].script,
                     satoshis |-> SignedOutputs[i].satoshis]>>
            /\ ret.value.totalAmount = SignedOutputs[i].satoshis
            /\ ret.value.mergeTxId = TxIdOf(hex)
            /\ ret.value.mergeTxHex = hex
            /\ mergeUTXOsFinish(args.payResult) = ret

\* The unique self-paying output stands behind other outputs.
C19_Witness ==
    /\ HasSignedTx
    /\ Cardinality(CallerOutputs) = 1
    /\ Len(SignedOutputs) = 3
    /\ MergeOk
    /\ MergedOutput.outputIndex = 2

\* C20 as stated: when no output of the signed merge transaction pays the
\* caller's own address, mergeUTXOs does not fail and returns output 0.
C20_Original ==
    (HasSignedTx /\ CallerOutputs = {}) =>
        /\ MergeOk
        /\ MergedOutput.outputIndex = 0

\* C20: when the signed merge transaction has outputs and none of them pays
\* the caller's own address, mergeUTXOs succeeds with output 0, its script and
\* its amount; without any output it fails as a failed merge; and an output
\* that does not pay the caller is returned in no other case.
C20_FallbackToFirstOutput ==
    /\ (HasSignedTx /\ CallerOutputs = {} /\ Len(SignedOutputs) > 0) =>
          /\ MergeOk
          /\ MergedOutput.outputIndex = 0
          /\ MergedOutput.script = SignedOutputs[1].script
          /\ MergedOutput.satoshis = SignedOutputs[1].satoshis
    /\ (HasSignedTx /\ Len(SignedOutputs) = 0) =>
          /\ MergeRejected
          /\ StartsWith(ret.message, "Failed to merge UTXOs: ")
    /\ (MergeOk /\ ~PaysCaller(MergedOutput)) => CallerOutputs = {}

\* No output pays the caller, one of them has a script without an address,
\* and the first output is returned.
C20_Witness ==
    /\ HasSignedTx
    /\ CallerOutputs = {}
    /\ \E i \in 1..Len(SignedOutputs) : SignedOutputs[i].script = OpReturnScript
    /\ MergeOk
    /\ ~PaysCaller(MergedOutput)
    /\ MergedOutput.outputIndex = 0

\* ---------------------------------------- claims on uploadFileToChainDirect
\* Where in the log of a run the events of one kind stand.
Positions(rn, ev, call) ==
    {i \in 1..Len(rn.log) : rn.log[i].ev = ev /\ rn.log[i].call = call}
Count(rn, ev, call) == Cardinality(Positions(rn, ev, call))

\* The selector returned a selection to the run.
Selected(rn) == rn.utxos # None
SelectedAmounts(rn) == [i \in 1..Len(rn.utxos.utxos) |-> rn.utxos.utxos[i].satoshis]
\* The amounts of the outputs the wallet listed to the run.
ListedAmounts(rn) ==
    LET result == rn.log[CHOOSE i \in Positions(rn, "return", "getUtxos") : TRUE].result
    IN  [i \in 1..Len(result.value.items) |-> result.value.items[i].value]
BuilderEntered(rn) == Positions(rn, "stage", "buildAndSignBaseTx") # {}
Before(rn, ev1, call1, ev2, call2) ==
    \A i \in Positions(rn, ev1, call1), j \in Positions(rn, ev2, call2) : i < j

\* C11: in a run the consolidator is entered exactly when the selection holds
\* more than one output, its funding call is made only then and at most once,
\* and when the base transaction is built after a selection of several
\* outputs the funding call was made exactly once before; a wallet without
\* the funding call ends the run in the consolidator.  Outputs [5000, 3000]
\* with 1500 required select [5000] (total 5000) without a funding call;
\* outputs [800, 700, 650] with 2000 required select all three (total 2150).
C11_ConsolidatorIffSeveral ==
    \A r \in Runs :
        LET rn == run[r] IN
        /\ Count(rn, "call", "pay") <= 1
        /\ Count(rn, "stage", "mergeUTXOs") <= 1
        /\ Count(rn, "call", "pay") <= Count(rn, "stage", "mergeUTXOs")
        /\ ~Selected(rn) => Count(rn, "stage", "mergeUTXOs") = 0
        /\ Selected(rn) =>
              /\ Count(rn, "stage", "mergeUTXOs") = 1 <=> Len(rn.utxos.utxos) > 1
              /\ Len(rn.utxos.utxos) > 1 =>
                    \/ Count(rn, "call", "pay") = 1
                    \/ /\ rn.pc = "done"
                       /\ rn.ret = MergeFailed("Wallet does not support pay method")
              /\ (Len(rn.utxos.utxos) > 1 /\ BuilderEntered(rn)) =>
                    /\ Count(rn, "call", "pay") = 1
                    /\ Before(rn, "call", "pay", "stage", "buildAndSignBaseTx")
                    /\ Before(rn, "return", "pay", "stage", "buildAndSignBaseTx")
              /\ (rn.estimatedFee = 1500 /\ ListedAmounts(rn) = <<5000, 3000>>) =>
                    /\ SelectedAmounts(rn) = <<5000>>
                    /\ rn.utxos.totalAmount = 5000
                    /\ Count(rn, "call", "pay") = 0
              /\ (rn.estimatedFee = 2000 /\ ListedAmounts(rn) = <<800, 700, 650>>) =>
                    /\ SelectedAmounts(rn) = <<800, 700, 650>>
                    /\ rn.utxos.totalAmount = 2150

\* Both scenarios at once: one run selected [5000] of [5000, 3000] for 1500
\* and built its transaction without a funding call, the other selected all
\* of [800, 700, 650] for 2000 and built it after one funding call.
C11_Witness ==
    /\ Selected(run[1]) /\ Selected(run[2])
    /\ run[1].estimatedFee = 1500 /\ ListedAmounts(run[1]) = <<5000, 3000>>
    /\ BuilderEntered(run[1]) /\ Count(run[1], "call", "pay") = 0
    /\ run[2].estimatedFee = 2000 /\ ListedAmounts(run[2]) = <<800, 700, 650>>
    /\ BuilderEntered(run[2]) /\ Count(run[2], "call", "pay") = 1

\* The place of an external call in the order of the stages.
Rank(call) ==
    CASE call = "getUtxos" -> 1
      [] call = "pay" -> 2
      [] call = "signTransaction" -> 3
      [] call = "fetch" -> 4

CallPositions(rn) == {i \in 1..Len(rn.log) : rn.log[i].ev = "call"}

\* The call made at position k of the log has returned before position i.
ReturnedBefore(rn, k, i) ==
    \E j \in (k + 1)..(i - 1) :
        rn.log[j].ev = "return" /\ rn.log[j].call = rn.log[k].call

Failed(rn) == rn.ret.status = "rejected"

\* A run that has ended takes no further step.
EndedRunsStay == \A r \in Runs : run[r].pc = "done" => run'[r] = run[r]

CallsInOrder ==
    \A r \in Runs :
        LET rn == run[r] IN
        /\ \A i, j \in CallPositions(rn) :
              i < j => Rank(rn.log[i].call) < Rank(rn.log[j].call)
        /\ \A k \in CallPositions(rn) :
              \A i \in (k + 1)..Len(rn.log) :
                  rn.log[i].ev \in {"call", "stage"} => ReturnedBefore(rn, k, i)
        /\ \A i \in 1..Len(rn.log) :
              (rn.log[i].ev = "return" /\ rn.log[i].result.status = "rejected") =>
                  /\ i = Len(rn.log)
                  /\ Failed(rn)
        /\ Failed(rn) =>
              /\ rn.pc = "done"
              /\ Len(rn.log) > 0 /\ rn.log[Len(rn.log)].ev # "call"
        /\ rn.pc \in {"getUtxos", "pay", "sign", "fetch"} <=>
              (Len(rn.log) > 0 /\ rn.log[Len(rn.log)].ev = "call")

\* C13: in a run the external calls are made in the order getUtxos, pay (if
\* at all), signTransaction, fetch; a call or a stage starts only after every
\* earlier call has returned; and once a stage has failed the run has ended
\* with that failure and makes no further call.
C13_StagesInOrder == [](CallsInOrder) /\ [][EndedRunsStay]_vars

\* One run went through all four calls, the other stopped at the signer's
\* refusal without a submission to the finalizer.
C13_Witness ==
    /\ run[1].pc = "done" /\ ~Failed(run[1])
    /\ Count(run[1], "call", "pay") = 1 /\ Count(run[1], "call", "fetch") = 1
    /\ run[2].pc = "done" /\ Failed(run[2])
    /\ Count(run[2], "return", "signTransaction") = 1
    /\ Count(run[2], "call", "fetch") = 0

AtMostOnceEach ==
    \A r \in Runs :
        LET rn == run[r] IN
        /\ \A call \in {"getUtxos", "pay", "signTransaction", "fetch"} :
              Count(rn, "call", call) <= 1
        /\ \A stage \in {"estimateUploadFee", "getWalletUTXOs", "mergeUTXOs",
                         "buildAndSignBaseTx", "directUpload"} :
              Count(rn, "stage", stage) <= 1
        /\ Failed(rn) => rn.pc = "done" /\ Count(rn, "stage", "getWalletUTXOs") = 1

\* A step never makes a call the run has made before and never restarts it.
NoCallAgain ==
    \A r \in Runs :
        /\ \A i \in (Len(run[r].log) + 1)..Len(run'[r].log) :
              run'[r].log[i].ev = "call" =>
                  Count(run[r], "call", run'[r].log[i].call) = 0
        /\ SubSeq(run'[r].log, 1, Len(run[r].log)) = run[r].log
        /\ run[r].pc = "done" => run'[r] = run[r]

\* C14: nothing is retried: in a run each of getUtxos, pay, signTransaction
\* and fetch is called at most once whatever the calls answer, each stage is
\* entered at most once, and a run that failed has ended with the error and
\* starts no other selection.
C14_NoRetry == [](AtMostOnceEach) /\ [][NoCallAgain]_vars

\* A run failed at the finalizer after one call of each kind.
C14_Witness ==
    /\ run[1].pc = "done" /\ Failed(run[1])
    /\ Count(run[1], "return", "fetch") = 1
    /\ \A call \in {"getUtxos", "pay", "signTransaction", "fetch"} :
          Count(run[1], "call", call) = 1

\* The rules the wallet's spend tracking leaves to the run: both runs hold
\* the same spendable output in their selections.
SameOutput(u, v) == u.txId = v.txId /\ u.outputIndex = v.outputIndex
SelectedSameOutput ==
    /\ Selected(run[1]) /\ Selected(run[2])
    /\ \E i \in 1..Len(run[1].utxos.utxos), j \in 1..Len(run[2].utxos.utxos) :
          SameOutput(run[1].utxos.utxos[i], run[2].utxos.utxos[j])

\* The signer refused or gave no signature; the finalizer could not be
\* reached or answered with a failure.
SignRefused(result) ==
    result.status = "rejected" \/ result.value.kind # "object"
SubmissionRefused(result) ==
    result.status = "rejected" \/ result.value.body.json.code # 0
ResultOf(rn, call) == rn.log[CHOOSE i \in Positions(rn, "return", call) : TRUE].result

LoserSurfacesFailure ==
    \A r \in Runs :
        LET rn == run[r] IN
        SelectedSameOutput =>
            /\ (Positions(rn, "return", "signTransaction") # {}
                  /\ SignRefused(ResultOf(rn, "signTransaction"))) =>
                  /\ rn.pc = "done" /\ Failed(rn)
                  /\ StartsWith(rn.ret.message, BuilderPrefix)
                  /\ Count(rn, "call", "fetch") = 0
            /\ (Positions(rn, "return", "fetch") # {}
                  /\ SubmissionRefused(ResultOf(rn, "fetch"))) =>
                  /\ rn.pc = "done" /\ Failed(rn)
                  /\ StartsWith(rn.ret.message, "DirectUpload failed: ")
            /\ Count(rn, "call", "getUtxos") = 1
            /\ Count(rn, "call", "signTransaction") <= 1

\* A step is a step of one run: it leaves the other run as it was, and a run
\* that has ended stays ended.
OneRunSteps ==
    /\ \E r \in Runs : \A o \in Runs \ {r} : run'[o] = run[o]
    /\ \A r \in Runs : run[r].pc = "done" => run'[r] = run[r]

\* C15: two runs under way at once change nothing of each other and are not
\* kept from selecting the same spendable output; a run the wallet or the
\* finalizer then fails ends with the signature or submission failure, and
\* has asked for the outputs once and for a signature at most once.
C15_RacingRuns == [](LoserSurfacesFailure) /\ [][OneRunSteps]_vars

\* Both runs selected the output tx1:0; the signer refused one of them while
\* the other was still waiting for its signature.
C15_Witness ==
    /\ SelectedSameOutput
    /\ run[1].pc = "sign"
    /\ run[2].pc = "done" /\ Failed(run[2])
    /\ Positions(run[2], "return", "signTransaction") # {}
    /\ SignRefused(ResultOf(run[2], "signTransaction"))

\* ------------------------------------------------------ the asset pointer
\* The decoding of scheme://{txId}i{index}: the scheme is taken off, the index
\* is the number behind the last "i" and the transaction id what stands
\* before it.
Scheme == "metafile://"

RECURSIVE LastIndexOf(_, _, _)
LastIndexOf(s, c, i) ==
    IF i = 0 THEN 0
    ELSE IF SubSeq(s, i, i) = c THEN i
    ELSE LastIndexOf(s, c, i - 1)

IsDigits(s) ==
    Len(s) > 0 /\ \A i \in 1..Len(s) : \E d \in 1..10 : SubSeq(s, i, i) = Digit[d]

RECURSIVE StrToNum(_)
StrToNum(s) ==
    IF Len(s) = 0 THEN 0
    ELSE StrToNum(SubSeq(s, 1, Len(s) - 1)) * 10
         + (CHOOSE d \in 0..9 : Digit[d + 1] = SubSeq(s, Len(s), Len(s)))

NotAPointer == [kind |-> "invalid"]
DecodePointer(pointer) ==
    IF ~StartsWith(pointer, Scheme) THEN NotAPointer
    ELSE LET rest == SubSeq(pointer, Len(Scheme) + 1, Len(pointer))
             k == LastIndexOf(rest, "i", Len(rest))
         IN  IF k <= 1 \/ ~IsDigits(SubSeq(rest, k + 1, Len(rest))) THEN NotAPointer
             ELSE [kind |-> "pointer", txId |-> SubSeq(rest, 1, k - 1),
                   index |-> StrToNum(SubSeq(rest, k + 1, Len(rest)))]

Uploaded(rn) == rn.pc = "done" /\ rn.ret.status = "fulfilled"

\* C16: the pointer made of the transaction id of an upload decodes to that
\* transaction id and the index 0, for every transaction id the finalizer
\* returns, and uploads with different transaction ids get different
\* pointers.
C16_PointerRoundTrip ==
    /\ \A r \in Runs :
          Uploaded(run[r]) =>
              /\ run[r].pointer.kind = "string"
              /\ DecodePointer(run[r].pointer.s) =
                    [kind |-> "pointer", txId |-> run[r].ret.value.txId, index |-> 0]
    /\ \A r1, r2 \in Runs :
          (Uploaded(run[r1]) /\ Uploaded(run[r2])
             /\ run[r1].ret.value.txId # run[r2].ret.value.txId) =>
              run[r1].pointer # run[r2].pointer

\* Two uploads whose transaction ids differ only by a trailing 0.
C16_Witness ==
    /\ Uploaded(run[1]) /\ Uploaded(run[2])
    /\ run[1].ret.value.txId = "c0ffee"
    /\ run[2].ret.value.txId = "c0ffee0"
    /\ run[1].pointer = Str("metafile://c0ffeei0")
    /\ run[2].pointer = Str("metafile://c0ffee0i0")

\* ------------------------------------------------- the builder's input
\* The amount the finalizer was told in the submission.
SubmittedAmount(rn) ==
    LET body == rn.log[CHOOSE i \in Positions(rn, "call", "fetch") : TRUE].request.body
        field == body[CHOOSE i \in 1..Len(body) : body[i].name = "totalInputAmount"]
    IN  field.value

\* C17: in a run that reaches the builder, the one output handed to it has an
\* amount of at least the margined fee + 1, after a selection of one output
\* and after a consolidation alike, and the same amount is submitted to the
\* finalizer as totalInputAmount.
C17_BuilderInputCoversFee ==
    \A r \in Runs :
        LET rn == run[r] IN
        BuilderEntered(rn) =>
            /\ Len(rn.finalUtxo.utxos.items) = 1
            /\ rn.finalUtxo.utxos.items[1].satoshis >= rn.estimatedFee + 1
            /\ rn.finalUtxo.totalAmount = rn.finalUtxo.utxos.items[1].satoshis
            /\ Positions(rn, "call", "fetch") # {} =>
                  SubmittedAmount(rn) = NumToStr(rn.finalUtxo.totalAmount)

\* ------------------------------------------------ the order of the selection
\* The orders of n items, and those that are descending by amount with equal
\* amounts in the order of the wallet's list.
Orders(n) == {p \in [1..n -> 1..n] : \A i, j \in 1..n : i # j => p[i] # p[j]}
DescendingStable(items, p) ==
    \A i, j \in 1..Len(items) :
        i < j => \/ items[p[i]].value > items[p[j]].value
                 \/ items[p[i]].value = items[p[j]].value /\ p[i] < p[j]

RECURSIVE SumFirst(_, _, _)
SumFirst(items, p, k) ==
    IF k = 0 THEN 0 ELSE SumFirst(items, p, k - 1) + items[p[k]].value

\* The first scenario of the selector: [5000, 3000] with 1500 required.
SelectorScenario ==
    (SelectorDone /\ args.requiredAmount = 1500
        /\ WalletItems # <<>> /\ [i \in 1..Len(WalletItems) |-> WalletItems[i].value] = <<5000, 3000>>) =>
        /\ SelectorOk
        /\ [i \in 1..Len(ret.value.utxos) |-> ret.value.utxos[i].satoshis] = <<5000>>
        /\ ret.value.totalAmount = 5000

\* C18: a selection returned by getWalletUTXOs is the shortest prefix of the
\* outputs above 600, taken by descending amount with equal amounts in the
\* wallet's order, whose sum is at least requiredAmount + 1: without its last
\* output the sum is below requiredAmount + 1; of [5000, 3000] with 1500
\* required it is [5000].
C18_ShortestDescendingPrefix ==
    /\ SelectorScenario
    /\ (SelectorDone /\ SelectorOk) =>
        \E p \in Orders(Len(UsableItems)) :
            LET k == Len(ret.value.utxos) IN
            /\ DescendingStable(UsableItems, p)
            /\ k >= 1 /\ k <= Len(UsableItems)
            /\ \A i \in 1..k :
                  /\ ret.value.utxos[i].txId = UsableItems[p[i]].txid
                  /\ ret.value.utxos[i].outputIndex = UsableItems[p[i]].outIndex
                  /\ ret.value.utxos[i].satoshis = UsableItems[p[i]].value
            /\ SumFirst(UsableItems, p, k) >= args.requiredAmount + 1
            /\ SumFirst(UsableItems, p, k - 1) < args.requiredAmount + 1

\* Two outputs of equal amount behind a smaller one: the selection takes the
\* two in the wallet's order and stops.
C18_Witness ==
    /\ SelectorDone /\ SelectorOk
    /\ Len(WalletItems) = 3 /\ Len(UsableItems) = 3
    /\ WalletItems[1].value < WalletItems[2].value
    /\ WalletItems[2].value = WalletItems[3].value
    /\ Len(ret.value.utxos) = 2
    /\ ret.value.utxos[1].txId = WalletItems[2].txid
    /\ ret.value.utxos[2].txId = WalletItems[3].txid

\* ------------------------------------------------------ the funding request
MergeCalled == fn = "mergeUTXOs" /\ pc \in {"pay", "done"}

\* C21: the request mergeUTXOs sends to the wallet's pay holds exactly one
\* transaction, without inputs and with exactly one output, which pays the
\* fee estimate to the caller's own address; it is made of the fee estimate
\* alone, whatever outputs the selection holds, and none of them is named in
\* it.  A wallet without pay gets no request.
C21_FundingRequest ==
    MergeCalled =>
        IF args.payIsFunction
        THEN /\ Len(extCalls) = 1
             /\ extCalls[1].call = "pay"
             /\ Len(extCalls[1].transactions) = 1
             /\ extCalls[1].transactions[1].txComposer.inputs = <<>>
             /\ extCalls[1].transactions[1].txComposer.outputs =
                   <<[script |-> buildPublicKeyHashOut(OwnAddress),
                      satoshis |-> args.estimatedFee]>>
        ELSE extCalls = <<>>

\* The request was sent for a selection of two different outputs.
C21_Witness ==
    /\ MergeCalled /\ pc = "pay"
    /\ Len(args.utxoData.utxos) = 2
    /\ args.utxoData.utxos[1].txId # args.utxoData.utxos[2].txId
    /\ args.estimatedFee = 1500
    /\ Len(extCalls) = 1

\* ------------------------------------------------ the finalizer submission
Submitted(rn) == Positions(rn, "call", "fetch") # {}
SubmissionBody(rn) ==
    rn.log[CHOOSE i \in Positions(rn, "call", "fetch") : TRUE].request.body
FieldsNamed(body, name) == SelectSeq(body, LAMBDA f : f.name = name)

\* A consolidation occurred in the run: the wallet's pay returned and
\* mergeUTXOs made the merged output of its answer.
Consolidated(rn) ==
    /\ Positions(rn, "return", "pay") # {}
    /\ mergeUTXOsFinish(ResultOf(rn, "pay")).status = "fulfilled"
ConsolidationTx(rn) == ResultOf(rn, "pay").value.payedTransactions[1]

\* C22: a submission to the finalizer has the field mergeTxHex exactly when
\* a consolidation occurred in the run; the field then holds the bytes of
\* the signed consolidation transaction and the single input of the submitted
\* pre-signed transaction spends an output of that very transaction.
C22_MergeTxAccompanies ==
    \A r \in Runs :
        LET rn == run[r] IN
        Submitted(rn) =>
            /\ Len(FieldsNamed(SubmissionBody(rn), "mergeTxHex")) =
                  (IF Consolidated(rn) THEN 1 ELSE 0)
            /\ Len(FieldsNamed(SubmissionBody(rn), "preTxHex")) = 1
            /\ FieldsNamed(SubmissionBody(rn), "preTxHex")[1].value = TxHex(rn.tx)
            /\ Len(rn.tx.inputs) = 1
            /\ Consolidated(rn) =>
                  LET mergeTx == ConsolidationTx(rn)
                      input == rn.tx.inputs[1]
                  IN  /\ FieldsNamed(SubmissionBody(rn), "mergeTxHex")[1].value = TxHex(mergeTx)
                      /\ input.prevTxId = TxIdOf(TxHex(mergeTx))
                      /\ input.outputIndex \in 0..(Len(mergeTx.outputs) - 1)
                      /\ input.output = mergeTx.outputs[input.outputIndex + 1]

\* One run submitted after a consolidation, the other without one.
C22_Witness ==
    /\ Submitted(run[1]) /\ Consolidated(run[1])
    /\ run[1].tx.inputs[1].prevTxId = TxIdOf(TxHex(ConsolidationTx(run[1])))
    /\ Submitted(run[2]) /\ ~Consolidated(run[2])

\* ------------------------------------------- the states of the transaction
\* The base transaction of a run is Built when it has its input and output
\* and no unlocking script, Signed when its input carries the signature the
\* signer returned.
TxBuilt(rn) == rn.tx # None /\ rn.tx.inputs[1].script = ""
TxSigned(rn) ==
    /\ rn.tx # None
    /\ Positions(rn, "return", "signTransaction") # {}
    /\ LET result == ResultOf(rn, "signTransaction") IN
          /\ result.status = "fulfilled"
          /\ result.value.kind = "object"
          /\ rn.tx.inputs[1].script =
                "<" \o SigToDER(result.value.signature.sig) \o ByteHex(195) \o "><"
                \o result.value.signature.publicKey \o ">"

ExternalCalls == {"getUtxos", "pay", "signTransaction", "fetch"}

OnlySignedSubmitted ==
    \A r \in Runs :
        LET rn == run[r] IN
        /\ \A i \in CallPositions(rn) :
              /\ rn.log[i].call \in ExternalCalls
              /\ rn.log[i].call = "fetch" =>
                    /\ rn.log[i].request.url = "/api/v1/files/direct-upload"
                    /\ Before(rn, "return", "signTransaction", "call", "fetch")
        /\ rn.tx # None => (TxBuilt(rn) \/ TxSigned(rn))
        /\ Submitted(rn) =>
              /\ TxSigned(rn)
              /\ FieldsNamed(SubmissionBody(rn), "preTxHex")[1].value = TxHex(rn.tx)
        /\ rn.pc = "sign" => TxBuilt(rn)
        /\ rn.pc = "done" =>
              (Uploaded(rn) <=>
                  (/\ Positions(rn, "return", "fetch") # {}
                   /\ directUploadFinish(ResultOf(rn, "fetch")).status = "fulfilled"))

\* The transaction only goes from Built to Signed, and a signed transaction
\* is not changed by the core again.
BuiltToSigned ==
    \A r \in Runs :
        /\ TxSigned(run[r]) => run'[r].tx = run[r].tx
        /\ (TxBuilt(run[r]) /\ run'[r].tx # run[r].tx) => TxSigned(run'[r])

\* C23: inside the core the base transaction only moves from Built to Signed:
\* the finalizer is called only with the transaction that carries the
\* signature the signer returned, the core calls nothing but the wallet's
\* getUtxos, pay and signTransaction and the finalizer's upload (it
\* broadcasts nothing), and what happens to the transaction afterwards shows
\* only in the finalizer's answer, which decides between result and failure.
C23_BuiltThenSigned == [](OnlySignedSubmitted) /\ [][BuiltToSigned]_vars

\* A signed transaction was submitted and the finalizer reported a failure.
C23_Witness ==
    /\ Submitted(run[1]) /\ TxSigned(run[1])
    /\ run[1].pc = "done" /\ Failed(run[1])
    /\ run[2].pc = "sign" /\ TxBuilt(run[2])

\* ------------------------------------------------------------ termination
Ended(rn) ==
    /\ rn.pc = "done"
    /\ \/ rn.ret.status = "fulfilled" /\ rn.pointer # None
       \/ rn.ret.status = "rejected"

\* C24: when every external call is answered at some time, by a result or by
\* a failure, every run ends, with the upload result or with one error; the
\* selection loop is part of the step that follows the wallet's answer and
\* ends for every list of outputs.
C24_EveryRunEnds == \A r \in Runs : <>[](Ended(run[r]))

\* Both runs have ended, one with the result and one with an error, after a
\* selection over three outputs.
C24_Witness ==
    /\ Ended(run[1]) /\ Uploaded(run[1])
    /\ Ended(run[2]) /\ Failed(run[2])
    /\ Selected(run[1]) /\ Len(run[1].utxos.utxos) = 3

\* ------------------------------------------------------- the stage context
\* The stage a run entered last, and the words with which each stage names
\* itself in the errors it throws.
LastStage(rn) ==
    LET stages == {i \in 1..Len(rn.log) : rn.log[i].ev = "stage"}
    IN  rn.log[CHOOSE i \in stages : \A j \in stages : j <= i].call
StageContext(stage) ==
    CASE stage = "getWalletUTXOs" -> "Failed to get UTXOs: "
      [] stage = "mergeUTXOs" -> "Failed to merge UTXOs: "
      [] stage = "buildAndSignBaseTx" -> "Failed to build/sign MVC transaction: "
      [] stage = "directUpload" -> "DirectUpload failed: "

\* C25: the error with which a run fails names the stage that failed: it
\* starts with the words of the stage the run had entered last, which is
\* the selection, the consolidation, the building and signing or the upload
\* (the fee estimation has no failure), and goes on with the cause.
C25_ErrorNamesStage ==
    \A r \in Runs :
        LET rn == run[r] IN
        Failed(rn) =>
            /\ LastStage(rn) \in {"getWalletUTXOs", "mergeUTXOs", "buildAndSignBaseTx",
                                  "directUpload"}
            /\ StartsWith(rn.ret.message, StageContext(LastStage(rn)))
            /\ Len(rn.ret.message) > Len(StageContext(LastStage(rn)))
            /\ \A stage \in {"getWalletUTXOs", "mergeUTXOs", "buildAndSignBaseTx",
                             "directUpload"} \ {LastStage(rn)} :
                  ~StartsWith(rn.ret.message, StageContext(stage))

\* One run failed in the consolidation, the other in the upload.
C25_Witness ==
    /\ Failed(run[1]) /\ LastStage(run[1]) = "mergeUTXOs"
    /\ Failed(run[2]) /\ LastStage(run[2]) = "directUpload"

\* ---------------------------------------------------- the fee rate of a run
\* The rate the estimator applied: the one that gives the estimated fee for
\* the size of the file.
AppliedRate(rn) ==
    CHOOSE k \in 0..MaxFeeRate :
        CeilMargin(estimatedTxSize(rn.file.size) * k) = rn.estimatedFee

\* C26: in a run the rate the estimator applied, the feeb of the funding
\* request and the feeRate field of the submission are the same value, for
\* every value of the fee-rate source, 0 and no value included: a run that
\* enters the upload stage submits the rate it estimated with.
C26_OneFeeRate ==
    \A r \in Runs :
        LET rn == run[r] IN
        /\ \A i \in Positions(rn, "call", "pay") :
              rn.log[i].request.feeb = AppliedRate(rn)
        /\ Positions(rn, "stage", "directUpload") # {} =>
              /\ Submitted(rn)
              /\ FieldsNamed(SubmissionBody(rn), "feeRate")[1].value =
                    NumToStr(AppliedRate(rn))

\* ------------------------------------------------- the builder's contract
\* C27: in every run the builder is called with exactly one UTXO and its
\* contract violation is never the error of a run: a selection is never
\* empty, a selection of one output is handed on as it is, and after a
\* consolidation the one merged output is handed on.
C27_BuilderGetsOneUtxo ==
    \A r \in Runs :
        LET rn == run[r] IN
        /\ Selected(rn) => Len(rn.utxos.utxos) >= 1
        /\ BuilderEntered(rn) =>
              /\ rn.finalUtxo.utxos.kind = "array"
              /\ Len(rn.finalUtxo.utxos.items) = 1
              /\ Len(rn.utxos.utxos) = 1 =>
                    /\ rn.finalUtxo.utxos.items = rn.utxos.utxos
                    /\ rn.finalUtxo.totalAmount = rn.utxos.totalAmount
              /\ Len(rn.utxos.utxos) > 1 =>
                    /\ Consolidated(rn)
                    /\ rn.finalUtxo.utxos.items =
                          mergeUTXOsFinish(ResultOf(rn, "pay")).value.utxos
        /\ Failed(rn) =>
              ~StartsWith(rn.ret.message, BuilderPrefix \o "SIGHASH_SINGLE requires exactly 1 UTXO")

\* The builder was entered after a consolidation of three outputs in one run
\* and with the one selected output in the other.
C27_Witness ==
    /\ BuilderEntered(run[1]) /\ Len(run[1].utxos.utxos) = 3
    /\ BuilderEntered(run[2]) /\ Len(run[2].utxos.utxos) = 1


\* ------------------------------------------------- claims on the form upload
\* The calls of run u so far, and the positions of those made for an item.
CallsOf(u) == uploads[u].log
CallsFor(u, item) == {j \in DOMAIN CallsOf(u) : CallsOf(u)[j].item = item}

\* The call that uploaded item c before the k-th call of run u.
UploadedBefore(u, c, k) ==
    {j \in CallsFor(u, c) : j < k /\ CallsOf(u)[j].outcome = "ok"}

\* The entry a directory must hold for its child c, uploaded by call j.
EntryOf(u, c, j) ==
    [type |-> allFormItems[c].type, file |-> CallsOf(u)[j].pinId,
     name |-> allFormItems[c].name]

\* The k-th call of run u, a tree record, comes after the upload of every
\* child of its directory and lists the children in order with their pointers.
RecordAfterChildren(u, k) ==
    LET call == CallsOf(u)[k]
        children == allFormItems[call.item].children
    IN  /\ \A i \in DOMAIN children : UploadedBefore(u, children[i], k) # {}
        /\ call.body.treeName = allFormItems[call.item].name
        /\ Len(call.body.entries) = Len(children)
        /\ \A i \in DOMAIN children :
              \E j \in UploadedBefore(u, children[i], k) :
                  call.body.entries[i] = EntryOf(u, children[i], j)

BottomUpInOrder ==
    \A u \in Uploads :
        /\ \A k \in DOMAIN CallsOf(u) :
              /\ CallsOf(u)[k].op = "createSimpletree" => RecordAfterChildren(u, k)
              /\ CallsOf(u)[k].op = "createSimpletree" <=> allFormItems[CallsOf(u)[k].item].type = "tree"
              /\ CallsOf(u)[k].outcome = "failed" => k = Len(CallsOf(u))
        /\ \A i \in DOMAIN allFormItems : Cardinality(CallsFor(u, i)) <= 1

\* A run that has ended makes no further call.
EndedUploadsStay ==
    \A u \in Uploads : uploads[u].pc = "done" => uploads'[u] = uploads[u]

\* C28: uploadDirectory uploads bottom-up and in order: a directory's tree
\* record is asked for only after every child was uploaded, its entries are
\* the children in order each with the pointer its upload returned, and a
\* failed upload is the last call of its run, so that neither a later
\* sibling nor the record of the directory or of an ancestor follows.
C28_BottomUpInOrder == [](BottomUpInOrder) /\ [][EndedUploadsStay]_vars

\* One run has recorded a root of two entries, one of them a directory; the
\* other failed on the file inside the first entry and left the second alone.
C28_Witness ==
    /\ uploads[1].pc = "done" /\ uploads[2].pc = "done"
    /\ Len(allFormItems) = 4
    /\ Len(allFormItems[1].children) = 2
    /\ allFormItems[2].type = "tree"
    /\ CallsOf(1) # <<>>
    /\ LET last == CallsOf(1)[Len(CallsOf(1))]
       IN  /\ last.op = "createSimpletree" /\ last.item = 1 /\ last.outcome = "ok"
           /\ Len(last.body.entries) = 2
           /\ last.body.entries[1].type = "tree"
    /\ Len(CallsOf(2)) = 1
    /\ CallsOf(2)[1].item = 3 /\ CallsOf(2)[1].outcome = "failed"


\* What a run emitted, and the ways a run can be.
EmittedBy(u, event) == {i \in DOMAIN emitted : emitted[i].by = u /\ emitted[i].event = event}
InProgress(u) == uploads[u].pc \in {"uploadFile", "createSimpletree"}
EveryCallSucceeded(u) == \A k \in DOMAIN CallsOf(u) : CallsOf(u)[k].outcome = "ok"
AllFilesHaveContent ==
    \A i \in DOMAIN allFormItems : allFormItems[i].type = "blob" => allFormItems[i].blob
ShapeErrors == {NoChildren(allFormItems[i].name) : i \in DOMAIN allFormItems}
FailedForShape(u) ==
    \E i \in EmittedBy(u, "upload-error") : emitted[i].value \in ShapeErrors

\* C29: for every form built from an archive whose files all have content, a
\* run of uploadSimpleTree whose calls all succeeded ends with
\* upload-complete, and a run that fails for the shape of the tree (a
\* directory without children) has put nothing on chain.
C29_EveryFilteredTreeUploads ==
    \A u \in Uploads :
        (uploads[u].pc = "done" /\ allFormItems # <<>> /\ AllFilesHaveContent) =>
            /\ EveryCallSucceeded(u) => EmittedBy(u, "upload-complete") # {}
            /\ FailedForShape(u) => CallsOf(u) = <<>>

\* C30: isUploading is true exactly while a run of uploadSimpleTree is in
\* progress, also when a second run was started before the first has ended.
C30_FlagWhileAnyRun ==
    isUploading <=> \E u \in Uploads : InProgress(u)

====
